---- MODULE Spec2Model ----
(***************************************************************************)
(* Route Optimization & Simulation Engine of the MARTA platform, and the    *)
(* pages of its frontend.                                                  *)
(*                                                                         *)
(* The engine's code in this repository is the Python of section 2.5 of    *)
(* technical_implementation_guide.md: run_greedy_optimization (with        *)
(* identify_overloaded_segments and propose_short_turn_loop), the Passenger*)
(* and Bus classes, and simulate_route_change, which runs one Bus process  *)
(* in a simpy Environment.  The body of identify_overloaded_segments is a  *)
(* placeholder there, and the orchestrator of a session (its error paths,  *)
(* timeouts and parallel workers) has no code in the repository: both      *)
(* follow the engine's design specification.                               *)
(*                                                                         *)
(* These specifications share the variables:                               *)
(*   Spec          one scenario: a call of simulate_route_change;          *)
(*   SpecBoarding  the same, with Passengers that arrived at stops;        *)
(*   SpecRerun     the same, called again and again with the same inputs;  *)
(*   SpecOpt       one call of run_greedy_optimization;                    *)
(*   SpecDetect    the same for two routes, with or without demand records;*)
(*   SpecPropose   the Proposal Generator, called for one segment;         *)
(*   SpecSession   one optimization session of the orchestrator;           *)
(*   SpecParallel  candidate scenarios run by parallel workers.            *)
(*                                                                         *)
(* The frontend is the React code: the stop search box SearchBar.jsx with  *)
(* the debounce and storage helpers of utils/helpers.js, the stop-details  *)
(* drawer BottomDrawer.jsx, and the TypeScript page (the zustand store of  *)
(* store/index.ts, MainLayout, Drawer/BottomDrawer.tsx and                 *)
(* Search/SearchBar.tsx).  A handler is one action; a promise that is      *)
(* awaited splits its function into the part before the await and one     *)
(* action for each way the promise settles.                                *)
(*   SpecDebounce  typing into the stop search box, timers and responses;  *)
(*   SpecSearchBar the keyboard and the mouse on its open dropdown;        *)
(*   SpecRecent    selections of stops and the recent searches;            *)
(*   SpecDrawer    stops selected on the map and predictDemand requests;   *)
(*   SpecStore     the store: the drawer and the initial data load;        *)
(*   SpecSuggest   the search box with demo suggestions of the store page. *)
(*                                                                         *)
(* Times are simulated seconds.  random.uniform(a, b) is modelled by a     *)
(* choice among sample points of [a, b]; random.random() < 0.8 by a choice *)
(* of its two outcomes; random.choice(l) by a choice of an element of l.   *)
(* The snippet never calls random.seed, so the process-wide generator      *)
(* starts from operating-system entropy and every draw is a choice over    *)
(* the values the generator can yield.                                     *)
(***************************************************************************)
EXTENDS Integers, Sequences, FiniteSets, TLC

(* ------------------------------ bounds -------------------------------- *)

\* longest route (number of stops of original_route)
RouteLen == 3

\* largest Bus capacity explored (simulate_route_change passes capacity=50;
\* Bus.__init__ takes any capacity)
MaxCapacity == 2

\* passengers that called arrive_at_stop before the run starts
MaxArrivals == 1

\* longest route of a scenario that is run again
RerunRouteLen == 2

\* longest first route of a topology of two routes
DetectRouteLen == 2

\* candidates of one optimization session
MaxCandidates == 3

\* parallel workers, one candidate scenario each
NumWorkers == 2

\* draws one scenario takes from the generator
MaxDraws == 3

\* changes of the search input (keystrokes) in one session of the page
MaxKeystrokes == 3

\* most stops in one search response
MaxResults == 2

\* api.predictDemand requests of one session of the page
MaxPredictions == 3

\* longest query typed into the search box of the TypeScript page
MaxQuery == 2

(* ------------------------- program constants -------------------------- *)

\* the wait of debouncedSearch, 300 ms, in units of 100 ms
DebounceWait == 3

\* shortest query that is searched: "if (query.length < 2)"
MinQueryLength == 2

\* recent searches kept: slice(0, 5)
RecentLimit == 5

\* stops a user can select one after the other
SelectableStops == <<1, 2, 3, 4, 5, 6>>

\* characters typed into the search box
KeyChars == {"a"}

\* stops that can be selected on the map
MapStops == {1, 2}

\* drawerHeight of the initial store state, and the limits of setDrawerHeight
InitialDrawerHeight == 300
MinDrawerHeight == 200
MaxDrawerHeight == 600

\* heights setDrawerHeight is called with
Heights == {0 - 100, 0, 199, 200, 450, 600, 601, 10000}

\* handleDragEnd: threshold, and the offsets and velocities of a drag
DragThreshold == 50
DragVelocity == 500
DragOffsets == {0 - 450, 0 - 60, 0 - 50, 0, 50, 60}
DragVelocities == {0 - 600, 0, 600}

\* env.run(until=3600)
Until == 3600

\* SIMULATION_CONFIG['simulation_hours']
SimulationHours == 24

\* OPTIMIZATION_CONFIG['max_short_turns']: short-turn loops per route
MaxShortTurns == 3

\* OPTIMIZATION_CONFIG['max_detour_time'], in minutes
MaxDetourTime == 15

\* minutes of travel between two consecutive stops of a route
HopMinutes == {5, 10}

\* min_headway and max_headway, in seconds: OPTIMIZATION_CONFIG has 5 and 30
\* minutes; a second minimum of 7 minutes
MinHeadways == {300, 420}
MaxHeadways == {1800}

\* current headways of a route, in seconds: under the minimum, between the
\* bounds, over the maximum
CurrentHeadways == {240, 600, 2400}

\* severities handed to the Headway Adjuster, in hundredths
AdjusterSeverities == {50, 80, 100, 200}

\* additional vehicle-hours a headway reduction implies, and their budget
ExtraVehicleHours == {2, 6}
VehicleHoursBudget == 4

\* OPTIMIZATION_CONFIG['bus_capacity']
BusCapacity == 50

\* OPTIMIZATION_CONFIG['overload_threshold'], in hundredths (80 is 0.8)
OverloadThreshold == 80

\* OPTIMIZATION_CONFIG['optimization_timeout'], in seconds of wall clock
OptimizationTimeout == 300

\* wall-clock budget of one scenario run, and the wall clock a run takes
\* that stays within it
ScenarioBudget == 200
RunTime == 100

\* predicted_riders of one stop in one time window: under the threshold
\* (30/50 = 0.6), on it (40/50 = 0.8) and over it (55/50 = 1.1)
RiderLevels == {30, 40, 55}

\* random.uniform(10, 30): sample points of the dwell time
DwellTimes == {20}

\* random.uniform(60, 180): sample points of the travel time
TravelTimes == {100, 160}

\* the dictionary simulate_route_change returns (hundredths for the ratios)
ResultMetrics ==
    [load_balancing_improvement |-> 10,
     passenger_wait_time_increase |-> -5,
     vehicle_utilization |-> 75]

NoMetrics == [load_balancing_improvement |-> 0,
              passenger_wait_time_increase |-> 0,
              vehicle_utilization |-> -1]

\* no boarding line printed yet; the run raised before printing one
NotObserved == -2
Raised == -1

NoProposal == [route_id |-> 0, loop_start_stop_id |-> 0, loop_end_stop_id |-> 0]

VARIABLES
    \* ---- inputs of simulate_route_change
    original_route,          \* the shared route topology: a list of stops
    proposed_route_change,   \* NoProposal for the baseline scenario
    capacity,                \* Bus.capacity
    num_buses,               \* vehicles configured for the scenario
    waiting,                 \* Passengers that called arrive_at_stop
    \* ---- the scenario
    repeated,                \* this is not the first call with these inputs
    status,                  \* Initialized, Running, Completed, Failed
    now,                     \* env.now
    queue,                   \* env._queue, in insertion order
    current,                 \* the event env.step() popped last
    metrics,                 \* what simulate_route_change returned
    reported,                \* a failure has been raised to the caller
    starts,                  \* how often this scenario entered env.run
    \* ---- Bus-A
    bus_route,               \* Bus.route
    pc,                      \* where Bus.run is suspended
    current_stop_index,      \* Bus.current_stop_index (0-based)
    passengers,              \* Bus.passengers: destination stops, in boarding order
    boarded_count,           \* boarded_count of the last arrival
    \* ---- what a caller sees of the runs
    observed,                \* boarded_count of the first arrival of this run
    previous,                \* the same of the run before, if it returned
    \* ---- run_greedy_optimization
    route_topology,          \* its parameter of that name: route id -> stop list
    forecasted_demand,       \* the Demand Index: (route, stop, window) -> riders
    insufficient_data,       \* routes reported as lacking demand records
    operational_constraints, \* its parameter of that name
    opt_pc,                  \* where the call is
    overloaded_segments,     \* the list of that name
    seg_index,               \* position of the for loop in it (1-based)
    optimized_routes,        \* the list of that name
    simulation_results,      \* results of simulate_route_change, per proposal
    \* ---- an optimization session of the orchestrator
    data_available,          \* the topology and the demand table can be read
    candidates,              \* number of candidates, in severity order
    sess_pc,                 \* where the session is
    elapsed,                 \* wall clock the session has used
    cand_index,              \* the candidate to evaluate next
    baseline_runs,           \* how often the baseline was simulated
    scenario_runs,           \* per candidate: how often its scenario was run
    scenario_wall,           \* per candidate: wall clock its scenario used
    scenario_status,         \* per candidate: status of its scenario
    accepted,                \* the accepted candidates, in order
    rejections,              \* the rejections: candidate and reason
    partial,                 \* the report's partial flag
    report,                  \* the proposals of the returned report
    \* ---- parallel workers
    rng_draws,               \* draws made so far from the module's generator
    worker_pc,               \* per worker: where its scenario is
    worker_draws,            \* per worker: which draws of the generator it got
    worker_metrics,          \* per worker: what simulate_route_change returned
    decided,                 \* workers' candidates decided so far, in order
    \* ---- the Proposal Generator, called for one overloaded segment
    gen_pc,                  \* where the call is
    gen_input,               \* the segment, the route's timing, the constraints
    short_turn_proposals,    \* what the Short-Turn Loop Proposer returned
    headway_proposals,       \* what the Headway Adjuster returned
    gen_rejections,          \* rejection reasons the Headway Adjuster recorded
    \* ---- the stop search box (components/search/SearchBar.jsx)
    value,                   \* its value prop: MainLayout's searchQuery
    isOpen,                  \* the dropdown is open
    results,                 \* stops of the last search response
    loading,                 \* a search is shown as running
    recentSearches,          \* the stops selected last
    selectedIndex,           \* the highlighted item (0-based), or -1
    local_storage,           \* localStorage's item 'recentSearches'
    storage_full,            \* localStorage.setItem throws
    render,                  \* number of the render whose closures are bound
    timers,                  \* pending setTimeout callbacks of the debounces
    search_requests,         \* api.searchStops requests without a response
    search_calls,            \* the api.searchStops requests issued, in order
    since_key,               \* time since the last keystroke, up to the wait
    burst,                   \* number of the burst of keystrokes
    keystrokes,              \* changes of the input so far
    selectedStop,            \* MainLayout's selectedStop
    \* ---- the stop-details drawer (BottomDrawer of unnamed/part_005)
    effect_stop,             \* selectedStop when the effect ran last
    demandData,              \* the prediction displayed
    demand_loading,          \* its loading state
    predict_requests,        \* api.predictDemand requests without a response
    predict_count,           \* api.predictDemand requests issued so far
    predict_failed,          \* a request has failed
    \* ---- the store of the TypeScript page (store/index.ts) and MainLayout
    drawerOpen,              \* AppState.drawerOpen
    drawerHeight,            \* AppState.drawerHeight
    requested_height,        \* the argument of the last setDrawerHeight call
    isConnected,             \* AppState.isConnected
    stops_request,           \* apiService.getStops: pending, ok or failed
    routes_request,          \* apiService.getRoutes: pending, ok or failed
    init_pc,                 \* where MainLayout's initializeData is
    searchQuery,             \* AppState.searchQuery
    storeSelectedStop,       \* AppState.selectedStop: the id of the stop
    \* ---- the search box of the TypeScript page (Search/SearchBar.tsx)
    searchResults,           \* its state of that name
    dropdownOpen             \* its state isOpen

inputVars == <<original_route, proposed_route_change, capacity, num_buses, waiting>>
scenarioVars == <<repeated, status, now, queue, current, metrics, reported, starts>>
busVars == <<bus_route, pc, current_stop_index, passengers, boarded_count>>
obsVars == <<observed, previous>>
simVars == <<inputVars, scenarioVars, busVars, obsVars>>
optVars == <<route_topology, forecasted_demand, insufficient_data, operational_constraints, opt_pc, overloaded_segments, seg_index, optimized_routes, simulation_results>>
sessVars == <<data_available, candidates, sess_pc, elapsed, cand_index, baseline_runs, scenario_runs, scenario_wall, scenario_status, accepted, rejections, partial, report>>
parVars == <<rng_draws, worker_pc, worker_draws, worker_metrics, decided>>
genVars == <<gen_pc, gen_input, short_turn_proposals, headway_proposals, gen_rejections>>
engineVars == <<simVars, optVars, sessVars, parVars, genVars>>
barVars == <<value, isOpen, results, loading, recentSearches, selectedIndex, local_storage, storage_full, render, timers, search_requests, search_calls, since_key, burst, keystrokes>>
drawerVars == <<effect_stop, demandData, demand_loading, predict_requests, predict_count, predict_failed>>
appVars == <<drawerOpen, drawerHeight, requested_height, isConnected, stops_request, routes_request, init_pc, searchQuery, storeSelectedStop, searchResults, dropdownOpen>>
uiVars == <<barVars, selectedStop, drawerVars, appVars>>
vars == <<simVars, optVars, sessVars, parVars, genVars, uiVars>>

(* ----------------------- simpy's event queue -------------------------- *)

\* Environment.schedule: heappush of (time, priority, eid, event); eid counts
\* insertions, so the position in this list stands for it.
Schedule(q, t, urgent, kind) ==
    Append(q, [time |-> t, urgent |-> urgent, kind |-> kind])

\* heap order of two entries on (time, priority)
Earlier(e, f) ==
    \/ e.time < f.time
    \/ e.time = f.time /\ e.urgent /\ ~f.urgent

SameKey(e, f) == e.time = f.time /\ e.urgent = f.urgent

NextIndexByInsertion(q) == 1

\* Environment.step: heappop takes the least (time, priority, eid)
NextIndex(q) ==
    CHOOSE i \in 1..Len(q) :
        \A j \in (1..Len(q)) \ {i} :
            \/ Earlier(q[i], q[j])
            \/ SameKey(q[i], q[j]) /\ i < j

Remove(q, i) == SubSeq(q, 1, i - 1) \o SubSeq(q, i + 1, Len(q))

NoEvent == [time |-> 0, urgent |-> TRUE, kind |-> "none", pos |-> 0]

Popped(q) ==
    [time |-> q[NextIndex(q)].time,
     urgent |-> q[NextIndex(q)].urgent,
     kind |-> q[NextIndex(q)].kind,
     pos |-> NextIndex(q)]

(* ------------------------------ Bus.run ------------------------------- *)

\* self.route[self.current_stop_index]
CurrentStop == bus_route[current_stop_index + 1]

\* self.route[self.current_stop_index+1:]
LaterStops(route, idx) == {route[k] : k \in (idx + 2)..Len(route)}

\* the alighting loop: remove every passenger whose destination is the stop
Alight(ps, stop) == SelectSeq(ps, LAMBDA d : d # stop)

HasSpaceOffByOne(ps, cap) == Len(ps) <= cap

\* len(self.passengers) < self.capacity
HasSpace(ps, cap) == Len(ps) < cap

\* the boarding loop: every list self.passengers can be when the loop ends,
\* each new passenger with a destination drawn from dests
RECURSIVE Boardings(_, _, _)
Boardings(ps, cap, dests) ==
    {ps} \cup
    (IF HasSpace(ps, cap)
     THEN UNION {Boardings(Append(ps, d), cap, dests) : d \in dests}
     ELSE {})


(* ----------------------- simulate_route_change ------------------------ *)

Stops(route) == {route[k] : k \in 1..Len(route)}

Routes == {[k \in 1..n |-> k] : n \in 1..RouteLen}

\* the candidate of a route: a short-turn loop between its first and last stop
CandidateProposal(route) ==
    [route_id |-> 1, loop_start_stop_id |-> route[1],
     loop_end_stop_id |-> route[Len(route)]]

\* env = simpy.Environment(); bus1 = Bus(env, "Bus-A", original_route, ...);
\* env.process(bus1.run()): the process's Initialize event is scheduled urgent
\* at time 0.  The proposed change is not applied (line 1564 is a comment).
InitialQueue(n) ==
    IF n = 0 THEN <<>> ELSE Schedule(<<>>, 0, TRUE, "Initialize")

SimInit ==
    /\ original_route \in Routes
    /\ proposed_route_change \in {NoProposal, CandidateProposal(original_route)}
    /\ capacity \in 1..MaxCapacity
    /\ num_buses \in {0, 1}
    /\ waiting = <<>>
    /\ repeated = FALSE
    /\ status = "Initialized"
    /\ now = 0
    /\ queue = InitialQueue(num_buses)
    /\ current = NoEvent
    /\ metrics = NoMetrics
    /\ reported = FALSE
    /\ starts = 0
    /\ bus_route = original_route
    /\ pc = "start"
    /\ current_stop_index = 0
    /\ passengers = <<>>
    /\ boarded_count = 0
    /\ observed = NotObserved
    /\ previous = NotObserved

\* Passenger.__init__ and Passenger.arrive_at_stop: wait_start_time = env.now;
\* "Add self to stop queue" is a comment, the Passenger object is all there is.
\* Only the code that sets a scenario up can call it: once env.run has
\* started, Bus.run is the only process.
PassengerArrive(s) ==
    /\ status = "Initialized"
    /\ ~repeated
    /\ Len(waiting) < MaxArrivals
    /\ waiting' = Append(waiting, [origin_stop |-> s, wait_start_time |-> now])
    /\ UNCHANGED <<original_route, proposed_route_change, capacity, num_buses>>
    /\ UNCHANGED <<scenarioVars, busVars, obsVars, optVars, sessVars, parVars, genVars, uiVars>>

\* env.run(until=3600): the until event is scheduled urgent at 3600
Start ==
    /\ status = "Initialized"
    /\ num_buses > 0
    /\ status' = "Running"
    /\ queue' = Schedule(queue, Until, TRUE, "StopSimulation")
    /\ starts' = starts + 1
    /\ UNCHANGED <<repeated, now, current, metrics, reported>>
    /\ UNCHANGED <<inputVars, busVars, obsVars, optVars, sessVars, parVars, genVars, uiVars>>

\* A scenario with no vehicle configured is started: nothing is scheduled
StartStarved ==
    /\ status = "Initialized"
    /\ num_buses = 0
    /\ status' = "Running"
    /\ starts' = starts + 1
    /\ UNCHANGED <<repeated, now, queue, current, metrics, reported>>
    /\ UNCHANGED <<inputVars, busVars, obsVars, optVars, sessVars, parVars, genVars, uiVars>>

FailStarvedAsCompleted ==
    /\ status = "Running"
    /\ queue = <<>>
    /\ status' = "Completed"
    /\ metrics' = ResultMetrics
    /\ UNCHANGED <<repeated, now, queue, current, reported, starts>>
    /\ UNCHANGED <<inputVars, busVars, obsVars, optVars, sessVars, parVars, genVars, uiVars>>

\* The event queue of a running scenario is starved: the scenario fails and
\* the failure is reported
FailStarved ==
    /\ status = "Running"
    /\ queue = <<>>
    /\ status' = "Failed"
    /\ reported' = TRUE
    /\ UNCHANGED <<repeated, now, queue, current, metrics, starts>>
    /\ UNCHANGED <<inputVars, busVars, obsVars, optVars, sessVars, parVars, genVars, uiVars>>

EventLoopRunsAfterReturn == status \in {"Running", "Completed"} /\ queue # <<>>

\* the loop of env.run: step() while the until event has not been processed
EventLoopRuns == status = "Running" /\ queue # <<>>

\* the first line Bus.run prints about boarding in a run
Observe(obs, v) == IF obs = NotObserved THEN v ELSE obs

\* Bus.run from its start, or from the travel timeout, to the dwell timeout
\* (lines 1522-1549): arrive, alight, board, draw the dwell time
StepArrive ==
    /\ EventLoopRuns
    /\ Popped(queue).kind \in {"Initialize", "Timeout"}
    /\ pc \in {"start", "travel"}
    /\ current' = Popped(queue)
    /\ now' = Popped(queue).time
    /\ LET after == Alight(passengers, CurrentStop)
           dests == LaterStops(bus_route, current_stop_index)
       IN \E ps \in Boardings(after, capacity, dests), dwell_time \in DwellTimes :
            /\ passengers' = ps
            /\ boarded_count' = Len(ps) - Len(after)
            /\ queue' = Schedule(Remove(queue, NextIndex(queue)),
                                 now' + dwell_time, FALSE, "Timeout")
            /\ observed' = Observe(observed, Len(ps) - Len(after))
    /\ pc' = "dwell"
    /\ UNCHANGED <<repeated, status, metrics, reported, starts>>
    /\ UNCHANGED <<inputVars, bus_route, current_stop_index, previous, optVars, sessVars, parVars, genVars, uiVars>>

\* The same arrival when the bus has room, random.random() < 0.8 and no stop
\* follows the current one: random.choice([]) raises IndexError, the process
\* fails and its failure event is scheduled at the current time.
StepArriveRaise ==
    /\ EventLoopRuns
    /\ Popped(queue).kind \in {"Initialize", "Timeout"}
    /\ pc \in {"start", "travel"}
    /\ HasSpace(Alight(passengers, CurrentStop), capacity)
    /\ LaterStops(bus_route, current_stop_index) = {}
    /\ current' = Popped(queue)
    /\ now' = Popped(queue).time
    /\ passengers' = Alight(passengers, CurrentStop)
    /\ boarded_count' = 0
    /\ queue' = Schedule(Remove(queue, NextIndex(queue)), now', FALSE, "ProcessFailed")
    /\ observed' = Observe(observed, Raised)
    /\ pc' = "raised"
    /\ UNCHANGED <<repeated, status, metrics, reported, starts>>
    /\ UNCHANGED <<inputVars, bus_route, current_stop_index, previous, optVars, sessVars, parVars, genVars, uiVars>>

\* Bus.run from the dwell timeout to the travel timeout (lines 1550-1555)
StepDepartRotating ==
    /\ EventLoopRuns
    /\ Popped(queue).kind = "Timeout"
    /\ pc = "dwell"
    /\ current' = Popped(queue)
    /\ now' = Popped(queue).time
    /\ bus_route' = Append(Tail(bus_route), Head(bus_route))
    /\ original_route' = bus_route'
    /\ \E travel_time \in TravelTimes :
            queue' = Schedule(Remove(queue, NextIndex(queue)),
                              now' + travel_time, FALSE, "Timeout")
    /\ pc' = "travel"
    /\ UNCHANGED <<repeated, status, metrics, reported, starts>>
    /\ UNCHANGED <<proposed_route_change, capacity, num_buses, waiting>>
    /\ UNCHANGED <<current_stop_index, passengers, boarded_count, obsVars, optVars, sessVars, parVars, genVars, uiVars>>

StepDepart ==
    /\ EventLoopRuns
    /\ Popped(queue).kind = "Timeout"
    /\ pc = "dwell"
    /\ current' = Popped(queue)
    /\ now' = Popped(queue).time
    /\ current_stop_index' = (current_stop_index + 1) % Len(bus_route)
    /\ \E travel_time \in TravelTimes :
            queue' = Schedule(Remove(queue, NextIndex(queue)),
                              now' + travel_time, FALSE, "Timeout")
    /\ pc' = "travel"
    /\ UNCHANGED <<repeated, status, metrics, reported, starts>>
    /\ UNCHANGED <<inputVars, bus_route, passengers, boarded_count, obsVars, optVars, sessVars, parVars, genVars, uiVars>>

\* the until event is processed: env.run returns and simulate_route_change
\* returns its dictionary
StepStop ==
    /\ EventLoopRuns
    /\ Popped(queue).kind = "StopSimulation"
    /\ current' = Popped(queue)
    /\ now' = Popped(queue).time
    /\ queue' = Remove(queue, NextIndex(queue))
    /\ status' = "Completed"
    /\ metrics' = ResultMetrics
    /\ UNCHANGED <<repeated, reported, starts>>
    /\ UNCHANGED <<inputVars, busVars, obsVars, optVars, sessVars, parVars, genVars, uiVars>>

\* the failure event of the process is processed: nobody handles it, step()
\* raises and the IndexError leaves simulate_route_change
StepRaise ==
    /\ EventLoopRuns
    /\ Popped(queue).kind = "ProcessFailed"
    /\ current' = Popped(queue)
    /\ now' = Popped(queue).time
    /\ queue' = Remove(queue, NextIndex(queue))
    /\ status' = "Failed"
    /\ reported' = TRUE
    /\ UNCHANGED <<repeated, metrics, starts>>
    /\ UNCHANGED <<inputVars, busVars, obsVars, optVars, sessVars, parVars, genVars, uiVars>>

\* the caller calls simulate_route_change again with the same arguments: a
\* new Environment and a new Bus on the same original_route
Rerun ==
    /\ status \in {"Completed", "Failed"}
    /\ repeated' = TRUE
    /\ status' = "Initialized"
    /\ now' = 0
    /\ queue' = InitialQueue(num_buses)
    /\ current' = NoEvent
    /\ metrics' = NoMetrics
    /\ reported' = FALSE
    /\ starts' = 0
    /\ bus_route' = original_route
    /\ pc' = "start"
    /\ current_stop_index' = 0
    /\ passengers' = <<>>
    /\ boarded_count' = 0
    /\ observed' = NotObserved
    /\ previous' = IF status = "Completed" THEN observed ELSE NotObserved
    /\ UNCHANGED <<inputVars, optVars, sessVars, parVars, genVars, uiVars>>

(* ---------------------- run_greedy_optimization ----------------------- *)

TimeWindows == {1, 2}

\* the routes of the topology; original_route is the stop list of route 1
RouteIds == DOMAIN route_topology

StopSequence(route_id) == route_topology[route_id]

\* a second route, which serves the first stop too
SecondRoute == <<1>>

\* the Demand Index: predicted_riders per (route_id, stop_id, time_window)
DemandKeys(r, route) ==
    {<<r, s, w>> : s \in Stops(route), w \in TimeWindows}

\* Demand Indexes with records for every stop and window of route 1
DemandTables(route) == [DemandKeys(1, route) -> RiderLevels]

\* Demand Indexes for two routes; a route has records for all its stops and
\* windows or has none
DemandOfRoute(r, route) ==
    {<<>>} \cup [DemandKeys(r, route) -> RiderLevels]

TwoRouteDemandTables(route) ==
    {d1 @@ d2 : d1 \in DemandOfRoute(1, route), d2 \in DemandOfRoute(2, SecondRoute)}

\* the Demand Index has a record of route r
HasRecords(demand, r) ==
    \E key \in DOMAIN demand : key[1] = r

\* routes without any demand record: InsufficientDataError, not fatal
InsufficientRoutes(demand) ==
    {r \in RouteIds : ~HasRecords(demand, r)}

\* predicted_riders / bus_capacity, in hundredths
Ratio(predicted_riders, bus_capacity) ==
    (predicted_riders * 100) \div bus_capacity

HotIgnoringCapacity(predicted_riders, bus_capacity) ==
    predicted_riders * 100 >= OverloadThreshold

\* a stop is hot when its ratio is at least the overload threshold
Hot(predicted_riders, bus_capacity) ==
    Ratio(predicted_riders, bus_capacity) >= OverloadThreshold

HotAt(demand, bus_capacity, r, w, k) ==
    Hot(demand[<<r, StopSequence(r)[k], w>>], bus_capacity)

\* positions at which a run of consecutive hot stops begins
RunStarts(demand, bus_capacity, r, w) ==
    {k \in 1..Len(StopSequence(r)) :
        /\ HotAt(demand, bus_capacity, r, w, k)
        /\ k = 1 \/ ~HotAt(demand, bus_capacity, r, w, k - 1)}

\* last position of the run that begins at position k
RunEnd(demand, bus_capacity, r, w, k) ==
    CHOOSE j \in k..Len(StopSequence(r)) :
        /\ \A i \in k..j : HotAt(demand, bus_capacity, r, w, i)
        /\ j = Len(StopSequence(r)) \/ ~HotAt(demand, bus_capacity, r, w, j + 1)

Max(S) == CHOOSE x \in S : \A y \in S : y <= x
Min(S) == CHOOSE x \in S : \A y \in S : x <= y

SeverityOfFirstStop(demand, bus_capacity, r, w, first, last) ==
    Ratio(demand[<<r, StopSequence(r)[first], w>>], bus_capacity)

\* severity of a run: the largest ratio among its stops
SegmentSeverity(demand, bus_capacity, r, w, first, last) ==
    Max({Ratio(demand[<<r, StopSequence(r)[i], w>>], bus_capacity) :
            i \in first..last})

\* the tuple (route_id, start_stop_id, end_stop_id,
\* predicted_overload_factor, time_window) of the run that begins at k
SegmentOfRun(demand, bus_capacity, r, w, k) ==
    LET last == RunEnd(demand, bus_capacity, r, w, k)
    IN [route_id |-> r,
        seg_start_stop |-> StopSequence(r)[k],
        seg_end_stop |-> StopSequence(r)[last],
        factor |-> SegmentSeverity(demand, bus_capacity, r, w, k, last),
        time_window |-> w]

\* the runs of one route in one time window, along the stop sequence
RECURSIVE SegmentsOfRuns(_, _, _, _, _)
SegmentsOfRuns(demand, bus_capacity, r, w, starts_left) ==
    IF starts_left = {} THEN <<>>
    ELSE LET k == Min(starts_left)
         IN <<SegmentOfRun(demand, bus_capacity, r, w, k)>>
              \o SegmentsOfRuns(demand, bus_capacity, r, w, starts_left \ {k})

\* one route, window after window
RECURSIVE SegmentsOfWindows(_, _, _, _)
SegmentsOfWindows(demand, bus_capacity, r, windows_left) ==
    IF windows_left = {} THEN <<>>
    ELSE LET w == Min(windows_left)
         IN SegmentsOfRuns(demand, bus_capacity, r, w,
                           RunStarts(demand, bus_capacity, r, w))
              \o SegmentsOfWindows(demand, bus_capacity, r, windows_left \ {w})

RECURSIVE SegmentsUntilNoRecords(_, _, _)
SegmentsUntilNoRecords(demand, bus_capacity, routes_left) ==
    IF routes_left = {} THEN <<>>
    ELSE LET r == Min(routes_left)
         IN IF HasRecords(demand, r)
            THEN SegmentsOfWindows(demand, bus_capacity, r, TimeWindows)
                   \o SegmentsUntilNoRecords(demand, bus_capacity, routes_left \ {r})
            ELSE <<>>

\* route after route; a route without demand records is skipped
RECURSIVE SegmentsOfRoutes(_, _, _)
SegmentsOfRoutes(demand, bus_capacity, routes_left) ==
    IF routes_left = {} THEN <<>>
    ELSE LET r == Min(routes_left)
         IN (IF HasRecords(demand, r)
             THEN SegmentsOfWindows(demand, bus_capacity, r, TimeWindows)
             ELSE <<>>)
              \o SegmentsOfRoutes(demand, bus_capacity, routes_left \ {r})

\* identify_overloaded_segments: for each route, its stop sequence is walked
\* per time window and consecutive hot stops are merged into one segment
identify_overloaded_segments(demand, bus_capacity) ==
    SegmentsOfRoutes(demand, bus_capacity, RouteIds)

\* the value of the key x[3]
Severity(segment) == segment.factor

RECURSIVE InsertAscending(_, _)
InsertAscending(sorted, x) ==
    IF sorted = <<>> \/ Severity(sorted[Len(sorted)]) <= Severity(x)
    THEN Append(sorted, x)
    ELSE Append(InsertAscending(SubSeq(sorted, 1, Len(sorted) - 1), x),
                sorted[Len(sorted)])

\* x goes behind every element whose key is at least its own
RECURSIVE InsertDescending(_, _)
InsertDescending(sorted, x) ==
    IF sorted = <<>> \/ Severity(sorted[Len(sorted)]) >= Severity(x)
    THEN Append(sorted, x)
    ELSE Append(InsertDescending(SubSeq(sorted, 1, Len(sorted) - 1), x),
                sorted[Len(sorted)])

\* list.sort(key=lambda x: x[3], reverse=True): stable, highest key first
RECURSIVE SortBySeverity(_)
SortBySeverity(l) ==
    IF l = <<>> THEN <<>>
    ELSE InsertDescending(SortBySeverity(SubSeq(l, 1, Len(l) - 1)), l[Len(l)])

\* propose_short_turn_loop: the loop spans the overloaded segment
propose_short_turn_loop(topology, overloaded_segment) ==
    [route_id |-> overloaded_segment.route_id,
     loop_start_stop_id |-> overloaded_segment.seg_start_stop,
     loop_end_stop_id |-> overloaded_segment.seg_end_stop,
     time_window |-> overloaded_segment.time_window]

\* "if proposed_loop:" a dictionary is true unless it is empty
Truthy(proposed_loop) == DOMAIN proposed_loop # {}

\* overloaded_segments = identify_overloaded_segments(forecasted_demand,
\* bus_capacity), line 1444
Identify ==
    /\ opt_pc = "called"
    /\ overloaded_segments' =
          identify_overloaded_segments(forecasted_demand, BusCapacity)
    /\ insufficient_data' = InsufficientRoutes(forecasted_demand)
    /\ opt_pc' = "identified"
    /\ UNCHANGED <<route_topology, forecasted_demand, operational_constraints,
                   seg_index, optimized_routes, simulation_results>>
    /\ UNCHANGED <<simVars, sessVars, parVars, genVars, uiVars>>

\* the sort of line 1447
SortSegments ==
    /\ opt_pc = "identified"
    /\ overloaded_segments' = SortBySeverity(overloaded_segments)
    /\ seg_index' = 1
    /\ opt_pc' = "loop"
    /\ UNCHANGED <<route_topology, forecasted_demand, insufficient_data,
                   operational_constraints, optimized_routes, simulation_results>>
    /\ UNCHANGED <<simVars, sessVars, parVars, genVars, uiVars>>

\* one iteration of the for loop (lines 1449-1460).  The call of
\* simulate_route_change and the test of its result are comments: nothing is
\* simulated and the proposal is appended.  "Update forecasted_demand to
\* reflect the impact of this accepted change" is a comment too: the Demand
\* Index stays as it was.
HandleSegment ==
    /\ opt_pc = "loop"
    /\ seg_index <= Len(overloaded_segments)
    /\ LET proposed_loop ==
            propose_short_turn_loop(original_route, overloaded_segments[seg_index])
       IN optimized_routes' =
            IF Truthy(proposed_loop)
            THEN Append(optimized_routes, proposed_loop)
            ELSE optimized_routes
    /\ seg_index' = seg_index + 1
    /\ UNCHANGED <<route_topology, forecasted_demand, insufficient_data,
                   operational_constraints, opt_pc, overloaded_segments,
                   simulation_results>>
    /\ UNCHANGED <<simVars, sessVars, parVars, genVars, uiVars>>

\* return optimized_routes
ReturnRoutes ==
    /\ opt_pc = "loop"
    /\ seg_index > Len(overloaded_segments)
    /\ opt_pc' = "returned"
    /\ UNCHANGED <<route_topology, forecasted_demand, insufficient_data,
                   operational_constraints, overloaded_segments, seg_index,
                   optimized_routes, simulation_results>>
    /\ UNCHANGED <<simVars, sessVars, parVars, genVars, uiVars>>

(* ----------------------- optimization session ------------------------- *)

\* improvement of a candidate's completed scenario over the baseline
Deltas == {0, 10}

ReasonEmptyOnTimeout(kind) ==
    CASE kind = "insufficient_data" -> "no demand data for the segment"
      [] kind = "constraint_violation" -> "proposal violates a hard constraint"
      [] kind = "simulation_failure" -> "scenario failed"
      [] kind = "simulation_timeout" -> ""
      [] kind = "no_improvement" -> "improvement not above the threshold"

\* the human-readable reason of a rejection
ReasonOf(kind) ==
    CASE kind = "insufficient_data" -> "no demand data for the segment"
      [] kind = "constraint_violation" -> "proposal violates a hard constraint"
      [] kind = "simulation_failure" -> "scenario failed"
      [] kind = "simulation_timeout" -> "scenario exceeded its wall-clock budget"
      [] kind = "no_improvement" -> "improvement not above the threshold"

Rejected(rejected, c, kind) ==
    Append(rejected, [candidate |-> c, kind |-> kind, reason |-> ReasonOf(kind)])

\* the next candidate can be evaluated: the session budget is not used up
CanEvaluate ==
    /\ sess_pc = "evaluating"
    /\ cand_index <= candidates
    /\ elapsed < OptimizationTimeout

\* the topology or the demand table is entirely unavailable: fatal
AbortNoData ==
    /\ sess_pc = "start"
    /\ ~data_available
    /\ sess_pc' = "aborted"
    /\ UNCHANGED <<data_available, candidates, elapsed, cand_index, baseline_runs,
                   scenario_runs, scenario_wall, scenario_status, accepted,
                   rejections, partial, report>>
    /\ UNCHANGED <<simVars, optVars, parVars, genVars, uiVars>>

\* the baseline scenario is simulated, once, before the candidates
RunBaseline ==
    /\ sess_pc = "start"
    /\ data_available
    /\ baseline_runs' = baseline_runs + 1
    /\ elapsed' = elapsed + RunTime
    /\ sess_pc' = "evaluating"
    /\ UNCHANGED <<data_available, candidates, cand_index, scenario_runs,
                   scenario_wall, scenario_status, accepted, rejections, partial,
                   report>>
    /\ UNCHANGED <<simVars, optVars, parVars, genVars, uiVars>>

\* InsufficientDataError: the candidate is skipped, the session continues
EvalInsufficientData ==
    /\ CanEvaluate
    /\ rejections' = Rejected(rejections, cand_index, "insufficient_data")
    /\ cand_index' = cand_index + 1
    /\ UNCHANGED <<data_available, candidates, sess_pc, elapsed, baseline_runs,
                   scenario_runs, scenario_wall, scenario_status, accepted,
                   partial, report>>
    /\ UNCHANGED <<simVars, optVars, parVars, genVars, uiVars>>

\* ConstraintViolationError: the candidate is discarded, the session continues
EvalConstraintViolation ==
    /\ CanEvaluate
    /\ rejections' = Rejected(rejections, cand_index, "constraint_violation")
    /\ cand_index' = cand_index + 1
    /\ UNCHANGED <<data_available, candidates, sess_pc, elapsed, baseline_runs,
                   scenario_runs, scenario_wall, scenario_status, accepted,
                   partial, report>>
    /\ UNCHANGED <<simVars, optVars, parVars, genVars, uiVars>>

EvalSimulationFailureAborts ==
    /\ CanEvaluate
    /\ scenario_runs' = [scenario_runs EXCEPT ![cand_index] = @ + 1]
    /\ scenario_wall' = [scenario_wall EXCEPT ![cand_index] = RunTime]
    /\ scenario_status' = [scenario_status EXCEPT ![cand_index] = "Failed"]
    /\ elapsed' = elapsed + RunTime
    /\ sess_pc' = "aborted"
    /\ UNCHANGED <<data_available, candidates, cand_index, baseline_runs, accepted,
                   rejections, partial, report>>
    /\ UNCHANGED <<simVars, optVars, parVars, genVars, uiVars>>

\* the candidate's scenario fails: the candidate is rejected, the session
\* continues
EvalSimulationFailure ==
    /\ CanEvaluate
    /\ scenario_runs' = [scenario_runs EXCEPT ![cand_index] = @ + 1]
    /\ scenario_wall' = [scenario_wall EXCEPT ![cand_index] = RunTime]
    /\ scenario_status' = [scenario_status EXCEPT ![cand_index] = "Failed"]
    /\ elapsed' = elapsed + RunTime
    /\ rejections' = Rejected(rejections, cand_index, "simulation_failure")
    /\ cand_index' = cand_index + 1
    /\ UNCHANGED <<data_available, candidates, sess_pc, baseline_runs, accepted,
                   partial, report>>
    /\ UNCHANGED <<simVars, optVars, parVars, genVars, uiVars>>

EvalSimulationTimeoutRetried ==
    /\ CanEvaluate
    /\ scenario_runs' = [scenario_runs EXCEPT ![cand_index] = @ + 2]
    /\ scenario_wall' = [scenario_wall EXCEPT ![cand_index] = ScenarioBudget]
    /\ scenario_status' = [scenario_status EXCEPT ![cand_index] = "Failed"]
    /\ elapsed' = elapsed + ScenarioBudget
    /\ rejections' = Rejected(rejections, cand_index, "simulation_timeout")
    /\ cand_index' = cand_index + 1
    /\ UNCHANGED <<data_available, candidates, sess_pc, baseline_runs, accepted,
                   partial, report>>
    /\ UNCHANGED <<simVars, optVars, parVars, genVars, uiVars>>

\* SimulationTimeoutError: the scenario used up its wall-clock budget; it is
\* marked Failed and its candidate is rejected, not retried
EvalSimulationTimeout ==
    /\ CanEvaluate
    /\ scenario_runs' = [scenario_runs EXCEPT ![cand_index] = @ + 1]
    /\ scenario_wall' = [scenario_wall EXCEPT ![cand_index] = ScenarioBudget]
    /\ scenario_status' = [scenario_status EXCEPT ![cand_index] = "Failed"]
    /\ elapsed' = elapsed + ScenarioBudget
    /\ rejections' = Rejected(rejections, cand_index, "simulation_timeout")
    /\ cand_index' = cand_index + 1
    /\ UNCHANGED <<data_available, candidates, sess_pc, baseline_runs, accepted,
                   partial, report>>
    /\ UNCHANGED <<simVars, optVars, parVars, genVars, uiVars>>

\* the candidate's scenario completes within its budget; the candidate is
\* accepted iff its delta exceeds the minimum-improvement threshold
EvalCompleted ==
    /\ CanEvaluate
    /\ scenario_runs' = [scenario_runs EXCEPT ![cand_index] = @ + 1]
    /\ scenario_wall' = [scenario_wall EXCEPT ![cand_index] = RunTime]
    /\ scenario_status' = [scenario_status EXCEPT ![cand_index] = "Completed"]
    /\ elapsed' = elapsed + RunTime
    /\ \E delta \in Deltas :
          IF delta > operational_constraints.threshold
          THEN /\ accepted' = Append(accepted, cand_index)
               /\ UNCHANGED rejections
          ELSE /\ rejections' = Rejected(rejections, cand_index, "no_improvement")
               /\ UNCHANGED accepted
    /\ cand_index' = cand_index + 1
    /\ UNCHANGED <<data_available, candidates, sess_pc, baseline_runs, partial,
                   report>>
    /\ UNCHANGED <<simVars, optVars, parVars, genVars, uiVars>>

SessionTimeoutNotPartial ==
    /\ sess_pc = "evaluating"
    /\ cand_index <= candidates
    /\ elapsed >= OptimizationTimeout
    /\ sess_pc' = "returned"
    /\ partial' = FALSE
    /\ report' = accepted
    /\ UNCHANGED <<data_available, candidates, elapsed, cand_index, baseline_runs,
                   scenario_runs, scenario_wall, scenario_status, accepted,
                   rejections>>
    /\ UNCHANGED <<simVars, optVars, parVars, genVars, uiVars>>

\* OrchestrationTimeoutError: the session budget is used up with candidates
\* left; they are not evaluated and a partial report is returned
SessionTimeout ==
    /\ sess_pc = "evaluating"
    /\ cand_index <= candidates
    /\ elapsed >= OptimizationTimeout
    /\ sess_pc' = "returned"
    /\ partial' = TRUE
    /\ report' = accepted
    /\ UNCHANGED <<data_available, candidates, elapsed, cand_index, baseline_runs,
                   scenario_runs, scenario_wall, scenario_status, accepted,
                   rejections>>
    /\ UNCHANGED <<simVars, optVars, parVars, genVars, uiVars>>

\* every candidate has been decided: the report is returned
ReturnReport ==
    /\ sess_pc = "evaluating"
    /\ cand_index > candidates
    /\ sess_pc' = "returned"
    /\ partial' = FALSE
    /\ report' = accepted
    /\ UNCHANGED <<data_available, candidates, elapsed, cand_index, baseline_runs,
                   scenario_runs, scenario_wall, scenario_status, accepted,
                   rejections>>
    /\ UNCHANGED <<simVars, optVars, parVars, genVars, uiVars>>

SessIdle ==
    /\ data_available = TRUE
    /\ candidates = 0
    /\ sess_pc = "idle"
    /\ elapsed = 0
    /\ cand_index = 1
    /\ baseline_runs = 0
    /\ scenario_runs = <<>>
    /\ scenario_wall = <<>>
    /\ scenario_status = <<>>
    /\ accepted = <<>>
    /\ rejections = <<>>
    /\ partial = FALSE
    /\ report = <<>>

(* -------------------------- parallel workers -------------------------- *)

Workers == 1..NumWorkers

\* a worker begins simulate_route_change for its candidate: its own
\* Environment (clock) and its own Bus
WorkerStart(w) ==
    /\ worker_pc[w] = "idle"
    /\ worker_pc' = [worker_pc EXCEPT ![w] = "running"]
    /\ UNCHANGED <<rng_draws, worker_draws, worker_metrics, decided>>
    /\ UNCHANGED <<simVars, optVars, sessVars, genVars, uiVars>>

\* Bus.run calls random.random, random.randint, random.choice or
\* random.uniform: functions of the module random, whose one generator all
\* threads of the process share.  The worker gets the generator's next draw.
WorkerDraw(w) ==
    /\ worker_pc[w] = "running"
    /\ Len(worker_draws[w]) < MaxDraws
    /\ rng_draws' = rng_draws + 1
    /\ worker_draws' = [worker_draws EXCEPT ![w] = Append(@, rng_draws + 1)]
    /\ UNCHANGED <<worker_pc, worker_metrics, decided>>
    /\ UNCHANGED <<simVars, optVars, sessVars, genVars, uiVars>>

\* env.run(until=3600) is over: simulate_route_change returns its dictionary
WorkerReturn(w) ==
    /\ worker_pc[w] = "running"
    /\ Len(worker_draws[w]) >= 1
    /\ worker_pc' = [worker_pc EXCEPT ![w] = "done"]
    /\ worker_metrics' = [worker_metrics EXCEPT ![w] = ResultMetrics]
    /\ UNCHANGED <<rng_draws, worker_draws, decided>>
    /\ UNCHANGED <<simVars, optVars, sessVars, genVars, uiVars>>

\* the orchestrator decides the next candidate in order, once its scenario
\* has returned; as in run_greedy_optimization the proposal is appended
Decide ==
    /\ Len(decided) < NumWorkers
    /\ worker_pc[Len(decided) + 1] = "done"
    /\ decided' = Append(decided, Len(decided) + 1)
    /\ UNCHANGED <<rng_draws, worker_pc, worker_draws, worker_metrics>>
    /\ UNCHANGED <<simVars, optVars, sessVars, genVars, uiVars>>

ParIdle ==
    /\ rng_draws = 0
    /\ worker_pc = [w \in Workers |-> "idle"]
    /\ worker_draws = [w \in Workers |-> <<>>]
    /\ worker_metrics = [w \in Workers |-> NoMetrics]
    /\ decided = <<>>

(* ------------------------- Proposal Generator ------------------------- *)

\* position of a stop in the stop sequence of its route
PositionOf(route_id, stop) ==
    CHOOSE k \in 1..Len(StopSequence(route_id)) : StopSequence(route_id)[k] = stop

\* minutes a short turn between two stops of a route takes
DetourMinutes(route_id, entry_stop, exit_stop, hop_minutes) ==
    (PositionOf(route_id, exit_stop) - PositionOf(route_id, entry_stop))
        * hop_minutes

\* the caller's list of short-turn proposals: "if proposed_loop:" then append
ShortTurnProposals(topology, overloaded_segment) ==
    LET proposed_loop == propose_short_turn_loop(topology, overloaded_segment)
    IN IF Truthy(proposed_loop) THEN <<proposed_loop>> ELSE <<>>

ClampToMax(headway, min_headway, max_headway) ==
    IF headway > max_headway THEN max_headway ELSE headway

\* clamp to [min_headway, max_headway]
Clamp(headway, min_headway, max_headway) ==
    IF headway < min_headway THEN min_headway
    ELSE IF headway > max_headway THEN max_headway
    ELSE headway

\* current_headway / severity, clamped
TargetHeadway(current_headway, severity, min_headway, max_headway) ==
    Clamp((current_headway * 100) \div severity, min_headway, max_headway)

IsReductionAfterClamp(current_headway, severity, target) ==
    target < current_headway

\* the target is a reduction: a severity under 1 would lengthen the headway
IsReduction(current_headway, severity, target) ==
    /\ severity >= 100
    /\ target < current_headway

WithinBudgetAlways(extra_vehicle_hours, budget) == TRUE

\* the implied additional vehicle-hours stay under the budget
WithinBudget(extra_vehicle_hours, budget) ==
    extra_vehicle_hours < budget

\* the Headway Adjuster: its proposals and the rejections it records
HeadwayAdjuster(input) ==
    LET target == TargetHeadway(input.current_headway, input.segment.factor,
                                input.min_headway, input.max_headway)
    IN IF ~IsReduction(input.current_headway, input.segment.factor, target)
       THEN [proposals |-> <<>>, rejections |-> <<>>]
       ELSE IF ~WithinBudget(input.extra_vehicle_hours, input.vehicle_hours_budget)
       THEN [proposals |-> <<>>,
             rejections |-> <<[route_id |-> input.segment.route_id,
                               reason |-> "additional vehicle-hours over budget"]>>]
       ELSE [proposals |-> <<[route_id |-> input.segment.route_id,
                              new_headway |-> target,
                              time_window |-> input.segment.time_window]>>,
             rejections |-> <<>>]

\* proposed_loop = propose_short_turn_loop(route_topology, segment)
ProposeShortTurn ==
    /\ gen_pc = "called"
    /\ short_turn_proposals' = ShortTurnProposals(route_topology, gen_input.segment)
    /\ gen_pc' = "short_turn"
    /\ UNCHANGED <<gen_input, headway_proposals, gen_rejections>>
    /\ UNCHANGED <<simVars, optVars, sessVars, parVars, uiVars>>

\* the Headway Adjuster is invoked for the same segment
AdjustHeadway ==
    /\ gen_pc = "short_turn"
    /\ headway_proposals' = HeadwayAdjuster(gen_input).proposals
    /\ gen_rejections' = HeadwayAdjuster(gen_input).rejections
    /\ gen_pc' = "returned"
    /\ UNCHANGED <<gen_input, short_turn_proposals>>
    /\ UNCHANGED <<simVars, optVars, sessVars, parVars, uiVars>>

NoInput == [segment |-> <<>>]

GenIdle ==
    /\ gen_pc = "idle"
    /\ gen_input = NoInput
    /\ short_turn_proposals = <<>>
    /\ headway_proposals = <<>>
    /\ gen_rejections = <<>>

\* overloaded segments of a route: a run of its stops, in time window 1
SegmentsOn(route) ==
    {[route_id |-> 1,
      seg_start_stop |-> route[i],
      seg_end_stop |-> route[j],
      factor |-> f,
      time_window |-> 1] :
        i \in 1..Len(route), j \in 1..Len(route), f \in AdjusterSeverities}

GenInputs(route) ==
    {in \in [segment : SegmentsOn(route),
             hop_minutes : HopMinutes,
             max_detour_time : {MaxDetourTime},
             current_headway : CurrentHeadways,
             min_headway : MinHeadways,
             max_headway : MaxHeadways,
             extra_vehicle_hours : ExtraVehicleHours,
             vehicle_hours_budget : {VehicleHoursBudget}] :
        in.segment.seg_start_stop <= in.segment.seg_end_stop}

(* ------------------ the store and MainLayout (ts) --------------------- *)

ClampHeightFromAbove(height) ==
    IF height > MaxDrawerHeight THEN MaxDrawerHeight ELSE height

\* Math.max(200, Math.min(height, 600))
ClampHeight(height) ==
    Max({MinDrawerHeight, Min({height, MaxDrawerHeight})})

\* Math.abs
Abs(x) == IF x < 0 THEN 0 - x ELSE x

\* the part of the store the search box does not use
StoreUnchangedBySearch ==
    UNCHANGED <<drawerOpen, drawerHeight, requested_height, isConnected,
                stops_request, routes_request, init_pc>>

SearchUnchangedByStore ==
    UNCHANGED <<searchQuery, storeSelectedStop, searchResults, dropdownOpen>>

\* setDrawerHeight(height), by any caller
setDrawerHeight(height) ==
    /\ drawerHeight' = ClampHeight(height)
    /\ requested_height' = height
    /\ UNCHANGED <<drawerOpen, isConnected, stops_request, routes_request, init_pc>>
    /\ SearchUnchangedByStore
    /\ UNCHANGED <<engineVars, barVars, selectedStop, drawerVars>>

SetAnyDrawerHeight == \E height \in Heights : setDrawerHeight(height)

\* setDrawerOpen(open): the backdrop, the handle, a drag downwards
setDrawerOpen(open) ==
    /\ drawerOpen # open
    /\ drawerOpen' = open
    /\ UNCHANGED <<drawerHeight, requested_height, isConnected, stops_request,
                   routes_request, init_pc>>
    /\ SearchUnchangedByStore
    /\ UNCHANGED <<engineVars, barVars, selectedStop, drawerVars>>

ToggleDrawer == \E open \in BOOLEAN : setDrawerOpen(open)

\* BottomDrawer.handleDragEnd with a drag that changes the store
DragEnd ==
    \E velocity \in DragVelocities, offset \in DragOffsets :
        IF velocity > DragVelocity \/ offset > DragThreshold
        THEN setDrawerOpen(FALSE)
        ELSE /\ velocity < 0 - DragVelocity \/ offset < 0 - DragThreshold
             /\ setDrawerHeight(Min({drawerHeight + Abs(offset), MaxDrawerHeight}))

\* fetchStops: apiService.getStops resolved or threw; the error is caught and
\* logged, so the promise of fetchStops is fulfilled in both cases
GetStopsSettled ==
    /\ stops_request = "pending"
    /\ stops_request' \in {"ok", "failed"}
    /\ UNCHANGED <<drawerOpen, drawerHeight, requested_height, isConnected,
                   routes_request, init_pc>>
    /\ SearchUnchangedByStore
    /\ UNCHANGED <<engineVars, barVars, selectedStop, drawerVars>>

\* fetchRoutes, the same
GetRoutesSettled ==
    /\ routes_request = "pending"
    /\ routes_request' \in {"ok", "failed"}
    /\ UNCHANGED <<drawerOpen, drawerHeight, requested_height, isConnected,
                   stops_request, init_pc>>
    /\ SearchUnchangedByStore
    /\ UNCHANGED <<engineVars, barVars, selectedStop, drawerVars>>

\* the promise of fetchStops or fetchRoutes is fulfilled once the request has
\* settled, whether it succeeded or threw: neither promise is ever rejected
FetchFulfilled(request) == request \in {"ok", "failed"}

\* what initializeData sets when Promise.all is fulfilled: setConnected(true).
\* The catch with setConnected(false) needs a rejected promise.
ConnectedAfterLoad == TRUE

\* initializeData after "await Promise.all([fetchStops(), fetchRoutes()])"
InitializeDataSettled ==
    /\ init_pc = "awaiting"
    /\ FetchFulfilled(stops_request)
    /\ FetchFulfilled(routes_request)
    /\ isConnected' = ConnectedAfterLoad
    /\ init_pc' = "done"
    /\ UNCHANGED <<drawerOpen, drawerHeight, requested_height, stops_request,
                   routes_request>>
    /\ SearchUnchangedByStore
    /\ UNCHANGED <<engineVars, barVars, selectedStop, drawerVars>>

(* ---------------- the search box of the page (tsx) -------------------- *)

\* String.prototype.toLowerCase, on one character
LowerChar(c) ==
    CASE c = "F" -> "f"
      [] c = "M" -> "m"
      [] c = "N" -> "n"
      [] c = "P" -> "p"
      [] c = "R" -> "r"
      [] OTHER -> c

ToLowerCase(str) == [k \in 1..Len(str) |-> LowerChar(str[k])]

\* String.prototype.includes
Includes(str, part) ==
    \E k \in 0..(Len(str) - Len(part)) : SubSeq(str, k + 1, k + Len(part)) = part

\* the demo suggestions, names and subtitles by their initials: Five Points
\* Station (Red & Blue Lines), Midtown Station (Red Line), Red Line (North
\* Springs to Airport)
Suggestions ==
    <<[id |-> 1, type |-> "stop", name |-> <<"F", "p">>, subtitle |-> <<"R", "b">>],
      [id |-> 3, type |-> "stop", name |-> <<"M", "s">>, subtitle |-> <<"R", "l">>],
      [id |-> 6, type |-> "route", name |-> <<"R", "l">>, subtitle |-> <<"N", "s">>]>>

\* the recent searches of the component: Five Points Station, Red Line
RecentDemoSearches ==
    <<[id |-> 1, type |-> "stop", name |-> <<"F", "p">>, subtitle |-> <<"R", "b">>],
      [id |-> 2, type |-> "route", name |-> <<"R", "l">>, subtitle |-> <<"N", "s">>]>>

\* characters typed into this search box
QueryChars == {"r", "m", "f"}

\* the filter of handleSearch
Matches(item, query) ==
    \/ Includes(ToLowerCase(item.name), ToLowerCase(query))
    \/ Includes(ToLowerCase(item.subtitle), ToLowerCase(query))

Filtered(query) == SelectSeq(Suggestions, LAMBDA item : Matches(item, query))

\* displayResults of the render
DisplayedResults == IF Len(searchQuery) > 0 THEN searchResults ELSE RecentDemoSearches

\* handleSearch(query)
handleSearch(query) ==
    /\ searchQuery' = query
    /\ searchResults' = IF Len(query) > 0 THEN Filtered(query) ELSE <<>>
    /\ UNCHANGED <<dropdownOpen, storeSelectedStop>>
    /\ StoreUnchangedBySearch
    /\ UNCHANGED <<engineVars, barVars, selectedStop, drawerVars>>

\* onChange of the input: a character more or one less
ChangeQuery ==
    \/ \E c \in QueryChars :
           /\ Len(searchQuery) < MaxQuery
           /\ handleSearch(Append(searchQuery, c))
    \/ /\ searchQuery # <<>>
       /\ handleSearch(SubSeq(searchQuery, 1, Len(searchQuery) - 1))

\* searchResults after handleSelectResult: it is not set
ResultsAfterSelect(result) == searchResults

\* handleSelectResult(result), for a displayed result that is clicked
SelectResult ==
    /\ dropdownOpen
    /\ \E i \in 1..Len(DisplayedResults) :
           LET result == DisplayedResults[i]
           IN /\ searchQuery' = result.name
              /\ dropdownOpen' = FALSE
              /\ searchResults' = ResultsAfterSelect(result)
              /\ storeSelectedStop' =
                     IF result.type = "stop" THEN result.id ELSE storeSelectedStop
    /\ StoreUnchangedBySearch
    /\ UNCHANGED <<engineVars, barVars, selectedStop, drawerVars>>

\* onFocus of the input
FocusInput ==
    /\ ~dropdownOpen
    /\ dropdownOpen' = TRUE
    /\ UNCHANGED <<searchQuery, storeSelectedStop, searchResults>>
    /\ StoreUnchangedBySearch
    /\ UNCHANGED <<engineVars, barVars, selectedStop, drawerVars>>

\* handleClickOutside
ClickOutside ==
    /\ dropdownOpen
    /\ dropdownOpen' = FALSE
    /\ UNCHANGED <<searchQuery, storeSelectedStop, searchResults>>
    /\ StoreUnchangedBySearch
    /\ UNCHANGED <<engineVars, barVars, selectedStop, drawerVars>>

\* the initial state of the store, and MainLayout mounted: initializeData
\* has called fetchStops and fetchRoutes
AppMounted ==
    /\ drawerOpen = TRUE
    /\ drawerHeight = InitialDrawerHeight
    /\ requested_height = InitialDrawerHeight
    /\ isConnected = FALSE
    /\ stops_request = "pending"
    /\ routes_request = "pending"
    /\ init_pc = "awaiting"
    /\ searchQuery = <<>>
    /\ storeSelectedStop = 0
    /\ searchResults = <<>>
    /\ dropdownOpen = FALSE

\* the TypeScript page is not open
AppIdle ==
    /\ drawerOpen = TRUE
    /\ drawerHeight = InitialDrawerHeight
    /\ requested_height = InitialDrawerHeight
    /\ isConnected = FALSE
    /\ stops_request = "none"
    /\ routes_request = "none"
    /\ init_pc = "idle"
    /\ searchQuery = <<>>
    /\ storeSelectedStop = 0
    /\ searchResults = <<>>
    /\ dropdownOpen = FALSE

(* ------------------- the stop-details drawer (jsx) -------------------- *)

\* what api.predictDemand returns for a stop
Prediction(stop_id) == [stop_id |-> stop_id]

\* demandData is null
NoDemandData == [stop_id |-> 0]

\* BottomDrawer after it was mounted without a selected stop
DrawerMounted ==
    /\ effect_stop = 0
    /\ demandData = NoDemandData
    /\ demand_loading = FALSE
    /\ predict_requests = {}
    /\ predict_count = 0
    /\ predict_failed = FALSE

\* MainLayout.handleStopSelect: a stop is selected on the map
SelectStop ==
    \E stop \in MapStops :
        /\ stop # selectedStop
        /\ selectedStop' = stop
        /\ UNCHANGED <<barVars, drawerVars, appVars, engineVars>>

\* the effect on [selectedStop] runs loadDemandData up to its await
LoadDemandData ==
    /\ effect_stop # selectedStop
    /\ predict_count < MaxPredictions
    /\ effect_stop' = selectedStop
    /\ demand_loading' = TRUE
    /\ predict_count' = predict_count + 1
    /\ predict_requests' = predict_requests \cup
           {[stop_id |-> selectedStop, call |-> predict_count + 1]}
    /\ UNCHANGED <<demandData, predict_failed>>
    /\ UNCHANGED <<barVars, selectedStop, appVars, engineVars>>

\* what a response does: setDemandData(prediction); setLoading(false)
ResponseApplied(r) ==
    /\ demandData' = Prediction(r.stop_id)
    /\ demand_loading' = FALSE

\* api.predictDemand resolved
PredictResolved ==
    \E r \in predict_requests :
        /\ predict_requests' = predict_requests \ {r}
        /\ ResponseApplied(r)
        /\ UNCHANGED <<effect_stop, predict_count, predict_failed>>
        /\ UNCHANGED <<barVars, selectedStop, appVars, engineVars>>

\* api.predictDemand threw: the error is logged; setLoading(false)
PredictRejected ==
    \E r \in predict_requests :
        /\ predict_requests' = predict_requests \ {r}
        /\ demand_loading' = FALSE
        /\ predict_failed' = TRUE
        /\ UNCHANGED <<effect_stop, demandData, predict_count>>
        /\ UNCHANGED <<barVars, selectedStop, appVars, engineVars>>

(* -------------------- the stop search box (jsx) ----------------------- *)

\* String.prototype.trim, on a list of characters
RECURSIVE TrimLeft(_)
TrimLeft(str) ==
    IF str # <<>> /\ Head(str) = " " THEN TrimLeft(Tail(str)) ELSE str

RECURSIVE TrimRight(_)
TrimRight(str) ==
    IF str # <<>> /\ str[Len(str)] = " "
    THEN TrimRight(SubSeq(str, 1, Len(str) - 1))
    ELSE str

Trim(str) == TrimRight(TrimLeft(str))

\* result.stop_name
StopName(stop_id) == <<"s", "t">>

\* lists of distinct stops a search response can hold
RECURSIVE Responses(_)
Responses(n) ==
    IF n = 0 THEN {<<>>}
    ELSE Responses(n - 1) \cup
         {Append(l, x) : l \in {m \in Responses(n - 1) : Len(m) = n - 1},
                         x \in 1..MaxResults} 

SearchResponses ==
    {l \in Responses(MaxResults) : \A i, j \in 1..Len(l) : i # j => l[i] # l[j]}

\* storage.get('recentSearches', []): the parsed item, or the default
StorageGet(item) == IF item.present THEN item.list ELSE <<>>

\* array.filter(item => item.stop_id !== result.stop_id)
Without(list, stop_id) == SelectSeq(list, LAMBDA x : x # stop_id)

\* array.slice(0, n)
Slice(list, n) == SubSeq(list, 1, IF Len(list) < n THEN Len(list) ELSE n)

UpdatedRecentUnsliced(recent, result) == <<result>> \o Without(recent, result)

\* updatedRecent of handleSelect
UpdatedRecent(recent, result) ==
    Slice(<<result>> \o Without(recent, result), RecentLimit)

\* showRecentSearches and displayResults of the render
ShowRecentSearches == Len(value) = 0 /\ Len(recentSearches) > 0
DisplayResults == IF ShowRecentSearches THEN recentSearches ELSE results

\* clearTimeout(timeout) of the debounce of one render: timeout is a variable
\* of the closure dataUtils.debounce returned to that render
ClearTimeout(ts, instance) == {t \in ts : t.instance # instance}

\* handleInputChange: the input changed to newValue
Type(newValue) ==
    /\ keystrokes < MaxKeystrokes
    /\ newValue # value
    /\ value' = newValue
    /\ selectedIndex' = -1
    /\ IF Trim(newValue) # <<>>
       THEN /\ isOpen' = TRUE
            /\ timers' = ClearTimeout(timers, render) \cup
                            {[instance |-> render, query |-> newValue,
                              remaining |-> DebounceWait]}
            /\ UNCHANGED results
       ELSE /\ isOpen' = FALSE
            /\ results' = <<>>
            /\ UNCHANGED timers
    /\ render' = render + 1
    /\ keystrokes' = keystrokes + 1
    /\ burst' = IF keystrokes = 0 \/ since_key >= DebounceWait
                THEN burst + 1 ELSE burst
    /\ since_key' = 0
    /\ UNCHANGED <<loading, recentSearches, local_storage, storage_full,
                   search_requests, search_calls, selectedStop>>
    /\ UNCHANGED <<engineVars, drawerVars, appVars>>

\* a character is typed at the end of the input, or the last one is deleted
TypeChar ==
    \/ \E c \in KeyChars : Type(Append(value, c))
    \/ value # <<>> /\ Type(SubSeq(value, 1, Len(value) - 1))

\* 100 ms pass; a timer that is due runs first
Tick ==
    /\ \A t \in timers : t.remaining > 0
    /\ timers # {} \/ (keystrokes > 0 /\ since_key < DebounceWait)
    /\ timers' = {[t EXCEPT !.remaining = @ - 1] : t \in timers}
    /\ since_key' = IF since_key < DebounceWait THEN since_key + 1 ELSE since_key
    /\ UNCHANGED <<value, isOpen, results, loading, recentSearches, selectedIndex,
                   local_storage, storage_full, render, search_requests,
                   search_calls, burst, keystrokes, selectedStop>>
    /\ UNCHANGED <<engineVars, drawerVars, appVars>>

\* later() of a debounce runs the search function up to its await
TimerFires ==
    \E t \in timers :
        /\ t.remaining = 0
        /\ timers' = timers \ {t}
        /\ IF Len(t.query) < MinQueryLength
           THEN /\ results' = <<>>
                /\ UNCHANGED <<loading, search_requests, search_calls>>
           ELSE /\ loading' = TRUE
                /\ search_calls' = Append(search_calls,
                       [query |-> t.query, value |-> value,
                        burst |-> burst, since_key |-> since_key])
                /\ search_requests' = search_requests \cup
                       {[query |-> t.query, call |-> Len(search_calls) + 1]}
                /\ UNCHANGED results
        /\ UNCHANGED <<value, isOpen, recentSearches, selectedIndex, local_storage,
                       storage_full, render, since_key, burst, keystrokes,
                       selectedStop>>
        /\ UNCHANGED <<engineVars, drawerVars, appVars>>

\* api.searchStops resolved: setResults(searchResults), setLoading(false)
SearchResolved ==
    \E r \in search_requests, response \in SearchResponses :
        /\ search_requests' = search_requests \ {r}
        /\ results' = response
        /\ loading' = FALSE
        /\ UNCHANGED <<value, isOpen, recentSearches, selectedIndex, local_storage,
                       storage_full, render, timers, search_calls, since_key,
                       burst, keystrokes, selectedStop>>
        /\ UNCHANGED <<engineVars, drawerVars, appVars>>

\* api.searchStops threw: setResults([]), setLoading(false)
SearchRejected ==
    \E r \in search_requests :
        /\ search_requests' = search_requests \ {r}
        /\ results' = <<>>
        /\ loading' = FALSE
        /\ UNCHANGED <<value, isOpen, recentSearches, selectedIndex, local_storage,
                       storage_full, render, timers, search_calls, since_key,
                       burst, keystrokes, selectedStop>>
        /\ UNCHANGED <<engineVars, drawerVars, appVars>>

\* handleSelect(result), with MainLayout's handleSearchSelect as onSelect
handleSelect(result) ==
    /\ value' = StopName(result)
    /\ selectedStop' = result
    /\ isOpen' = FALSE
    /\ selectedIndex' = -1
    /\ recentSearches' = UpdatedRecent(recentSearches, result)
    /\ local_storage' =
           IF storage_full THEN local_storage
           ELSE [present |-> TRUE, list |-> UpdatedRecent(recentSearches, result)]
    /\ UNCHANGED <<results, loading, storage_full, render, timers, search_requests,
                   search_calls, since_key, burst, keystrokes>>
    /\ UNCHANGED <<engineVars, drawerVars, appVars>>

\* an item of the dropdown is clicked
ClickResult ==
    /\ isOpen
    /\ ~loading
    /\ \E i \in 1..Len(DisplayResults) : handleSelect(DisplayResults[i])

\* handleKeyDown, 'ArrowDown'
ArrowDown ==
    /\ isOpen
    /\ LET totalResults == Len(results) +
                               (IF Len(value) = 0 THEN Len(recentSearches) ELSE 0)
       IN /\ selectedIndex < totalResults - 1
          /\ selectedIndex' = selectedIndex + 1
    /\ UNCHANGED <<value, isOpen, results, loading, recentSearches, local_storage,
                   storage_full, render, timers, search_requests, search_calls,
                   since_key, burst, keystrokes, selectedStop>>
    /\ UNCHANGED <<engineVars, drawerVars, appVars>>

\* handleKeyDown, 'ArrowUp'
ArrowUp ==
    /\ isOpen
    /\ selectedIndex > -1
    /\ selectedIndex' = selectedIndex - 1
    /\ UNCHANGED <<value, isOpen, results, loading, recentSearches, local_storage,
                   storage_full, render, timers, search_requests, search_calls,
                   since_key, burst, keystrokes, selectedStop>>
    /\ UNCHANGED <<engineVars, drawerVars, appVars>>

\* handleKeyDown, 'Enter'
Enter ==
    /\ isOpen
    /\ selectedIndex >= 0
    /\ LET allResults == IF Len(value) = 0 THEN recentSearches ELSE results
       IN /\ selectedIndex + 1 <= Len(allResults)
          /\ handleSelect(allResults[selectedIndex + 1])

\* handleKeyDown, 'Escape', and handleClickOutside
CloseDropdown ==
    /\ isOpen \/ selectedIndex # -1
    /\ isOpen' = FALSE
    /\ selectedIndex' = -1
    /\ UNCHANGED <<value, results, loading, recentSearches, local_storage,
                   storage_full, render, timers, search_requests, search_calls,
                   since_key, burst, keystrokes, selectedStop>>
    /\ UNCHANGED <<engineVars, drawerVars, appVars>>

\* handleFocus
Focus ==
    /\ ~isOpen
    /\ isOpen' = TRUE
    /\ UNCHANGED <<value, results, loading, recentSearches, selectedIndex,
                   local_storage, storage_full, render, timers, search_requests,
                   search_calls, since_key, burst, keystrokes, selectedStop>>
    /\ UNCHANGED <<engineVars, drawerVars, appVars>>

\* handleClear: inputRef.current.focus() raises a focus event, and with it
\* handleFocus, when the click on the button took the focus from the input
Clear ==
    /\ value # <<>>
    /\ value' = <<>>
    /\ results' = <<>>
    /\ isOpen' \in BOOLEAN
    /\ UNCHANGED <<loading, recentSearches, selectedIndex, local_storage,
                   storage_full, render, timers, search_requests, search_calls,
                   since_key, burst, keystrokes, selectedStop>>
    /\ UNCHANGED <<engineVars, drawerVars, appVars>>

NoItem == [present |-> FALSE, list |-> <<>>]

\* the search box after it was mounted: the effect has loaded recentSearches
BarMounted ==
    /\ value = <<>>
    /\ isOpen = FALSE
    /\ results = <<>>
    /\ loading = FALSE
    /\ recentSearches = StorageGet(local_storage)
    /\ selectedIndex = -1
    /\ storage_full \in BOOLEAN
    /\ render = 1
    /\ timers = {}
    /\ search_requests = {}
    /\ search_calls = <<>>
    /\ since_key = 0
    /\ burst = 0
    /\ keystrokes = 0
    /\ selectedStop = 0
    /\ DrawerMounted
    /\ AppIdle

\* the page of SearchBar.jsx is not open
JsxIdle ==
    /\ local_storage = NoItem
    /\ storage_full = FALSE
    /\ value = <<>>
    /\ isOpen = FALSE
    /\ results = <<>>
    /\ loading = FALSE
    /\ recentSearches = <<>>
    /\ selectedIndex = -1
    /\ render = 0
    /\ timers = {}
    /\ search_requests = {}
    /\ search_calls = <<>>
    /\ since_key = 0
    /\ burst = 0
    /\ keystrokes = MaxKeystrokes
    /\ selectedStop = 0
    /\ DrawerMounted

\* no page is open
UiIdle ==
    /\ JsxIdle
    /\ AppIdle

\* thresholds of the acceptance test, in the units of the result dictionary
Constraints ==
    [threshold : {0, 5}, max_allowed_increase : {0}]

OptIdle ==
    /\ route_topology = <<>>
    /\ forecasted_demand = <<>>
    /\ insufficient_data = {}
    /\ operational_constraints \in Constraints
    /\ opt_pc = "idle"
    /\ overloaded_segments = <<>>
    /\ seg_index = 0
    /\ optimized_routes = <<>>
    /\ simulation_results = <<>>

Init ==
    /\ SimInit
    /\ OptIdle
    /\ SessIdle
    /\ ParIdle
    /\ GenIdle
    /\ UiIdle
    /\ operational_constraints.threshold = 0

\* run_greedy_optimization is called with a Demand Index for the route:
\* optimized_routes = []
InitOpt ==
    /\ SimInit
    /\ num_buses = 1
    /\ capacity = 1
    /\ proposed_route_change = NoProposal
    /\ operational_constraints \in Constraints
    /\ route_topology = <<original_route>>
    /\ forecasted_demand \in DemandTables(original_route)
    /\ insufficient_data = {}
    /\ opt_pc = "called"
    /\ overloaded_segments = <<>>
    /\ seg_index = 0
    /\ optimized_routes = <<>>
    /\ simulation_results = <<>>
    /\ SessIdle
    /\ ParIdle
    /\ GenIdle
    /\ UiIdle

NextOpt ==
    \/ Identify
    \/ SortSegments
    \/ HandleSegment
    \/ ReturnRoutes

SpecOpt == InitOpt /\ [][NextOpt]_vars

\* run_greedy_optimization is called with a topology of two routes and a
\* Demand Index in which a route may have no record
InitDetect ==
    /\ SimInit
    /\ Len(original_route) <= DetectRouteLen
    /\ num_buses = 1
    /\ capacity = 1
    /\ proposed_route_change = NoProposal
    /\ operational_constraints \in Constraints
    /\ operational_constraints.threshold = 0
    /\ route_topology = <<original_route, SecondRoute>>
    /\ forecasted_demand \in TwoRouteDemandTables(original_route)
    /\ insufficient_data = {}
    /\ opt_pc = "called"
    /\ overloaded_segments = <<>>
    /\ seg_index = 0
    /\ optimized_routes = <<>>
    /\ simulation_results = <<>>
    /\ SessIdle
    /\ ParIdle
    /\ GenIdle
    /\ UiIdle

SpecDetect == InitDetect /\ [][NextOpt]_vars

\* a session starts: the candidates are known, nothing has been simulated
InitSession ==
    /\ SimInit
    /\ Len(original_route) = 1
    /\ num_buses = 1
    /\ capacity = 1
    /\ proposed_route_change = NoProposal
    /\ OptIdle
    /\ ParIdle
    /\ GenIdle
    /\ UiIdle
    /\ data_available \in BOOLEAN
    /\ candidates \in 0..MaxCandidates
    /\ sess_pc = "start"
    /\ elapsed = 0
    /\ cand_index = 1
    /\ baseline_runs = 0
    /\ scenario_runs = [c \in 1..candidates |-> 0]
    /\ scenario_wall = [c \in 1..candidates |-> 0]
    /\ scenario_status = [c \in 1..candidates |-> "None"]
    /\ accepted = <<>>
    /\ rejections = <<>>
    /\ partial = FALSE
    /\ report = <<>>

NextSession ==
    \/ AbortNoData
    \/ RunBaseline
    \/ EvalInsufficientData
    \/ EvalConstraintViolation
    \/ EvalSimulationFailure
    \/ EvalSimulationTimeout
    \/ EvalCompleted
    \/ SessionTimeout
    \/ ReturnReport

SpecSession == InitSession /\ [][NextSession]_vars

\* the workers have their candidates; none has started
InitParallel ==
    /\ SimInit
    /\ Len(original_route) = 1
    /\ num_buses = 1
    /\ capacity = 1
    /\ proposed_route_change = NoProposal
    /\ OptIdle
    /\ SessIdle
    /\ ParIdle
    /\ GenIdle
    /\ UiIdle

NextParallel ==
    \/ \E w \in Workers : WorkerStart(w)
    \/ \E w \in Workers : WorkerDraw(w)
    \/ \E w \in Workers : WorkerReturn(w)
    \/ Decide

SpecParallel == InitParallel /\ [][NextParallel]_vars

\* the Proposal Generator is called for one overloaded segment of the route
InitPropose ==
    /\ SimInit
    /\ num_buses = 1
    /\ capacity = 1
    /\ proposed_route_change = NoProposal
    /\ route_topology = <<original_route>>
    /\ forecasted_demand = <<>>
    /\ insufficient_data = {}
    /\ operational_constraints \in Constraints
    /\ operational_constraints.threshold = 0
    /\ opt_pc = "idle"
    /\ overloaded_segments = <<>>
    /\ seg_index = 0
    /\ optimized_routes = <<>>
    /\ simulation_results = <<>>
    /\ SessIdle
    /\ ParIdle
    /\ gen_pc = "called"
    /\ gen_input \in GenInputs(original_route)
    /\ short_turn_proposals = <<>>
    /\ headway_proposals = <<>>
    /\ gen_rejections = <<>>
    /\ UiIdle

NextPropose ==
    \/ ProposeShortTurn
    \/ AdjustHeadway

SpecPropose == InitPropose /\ [][NextPropose]_vars

EngineIdle ==
    /\ SimInit
    /\ Len(original_route) = 1
    /\ num_buses = 0
    /\ capacity = 1
    /\ proposed_route_change = NoProposal
    /\ OptIdle
    /\ operational_constraints.threshold = 0
    /\ SessIdle
    /\ ParIdle
    /\ GenIdle

\* the page is opened; localStorage holds nothing or what an earlier visit left
InitSearchBar ==
    /\ EngineIdle
    /\ local_storage \in {NoItem, [present |-> TRUE, list |-> <<1>>]}
    /\ BarMounted

\* the user types, and does nothing else
NextDebounce ==
    \/ TypeChar
    \/ Tick
    \/ TimerFires
    \/ SearchResolved
    \/ SearchRejected

SpecDebounce == InitSearchBar /\ [][NextDebounce]_vars

\* the user has typed "aa" and stopped: the search was requested once, and
\* its response is there or not yet
InitDropdown ==
    /\ EngineIdle
    /\ local_storage \in {NoItem, [present |-> TRUE, list |-> <<1>>]}
    /\ storage_full = FALSE
    /\ value = <<"a", "a">>
    /\ isOpen = TRUE
    /\ loading \in BOOLEAN
    /\ results \in (IF loading THEN {<<>>} ELSE SearchResponses)
    /\ recentSearches = StorageGet(local_storage)
    /\ selectedIndex = -1
    /\ render = 3
    /\ timers = {}
    /\ search_requests = (IF loading THEN {[query |-> value, call |-> 1]} ELSE {})
    /\ search_calls = <<[query |-> value, value |-> value, burst |-> 1,
                         since_key |-> DebounceWait]>>
    /\ since_key = DebounceWait
    /\ burst = 1
    /\ keystrokes = 2
    /\ selectedStop = 0
    /\ DrawerMounted
    /\ AppIdle

\* the dropdown is used with the keyboard and the mouse
NextSearchBar ==
    \/ SearchResolved
    \/ SearchRejected
    \/ ClickResult
    \/ ArrowDown
    \/ ArrowUp
    \/ Enter
    \/ CloseDropdown
    \/ Focus
    \/ Clear

SpecSearchBar == InitDropdown /\ [][NextSearchBar]_vars

\* a response with six stops is displayed; localStorage takes writes or not
InitRecent ==
    /\ EngineIdle
    /\ local_storage = NoItem
    /\ storage_full \in BOOLEAN
    /\ value = <<"a", "a">>
    /\ isOpen = TRUE
    /\ loading = FALSE
    /\ results = SelectableStops
    /\ recentSearches = StorageGet(local_storage)
    /\ selectedIndex = -1
    /\ render = 3
    /\ timers = {}
    /\ search_requests = {}
    /\ search_calls = <<[query |-> value, value |-> value, burst |-> 1,
                         since_key |-> DebounceWait]>>
    /\ since_key = DebounceWait
    /\ burst = 1
    /\ keystrokes = 2
    /\ selectedStop = 0
    /\ DrawerMounted
    /\ AppIdle

\* results are selected one after the other
NextRecent ==
    \/ ClickResult
    \/ Focus

SpecRecent == InitRecent /\ [][NextRecent]_vars

\* the page is open, nothing was typed and no stop is selected
InitDrawer ==
    /\ EngineIdle
    /\ local_storage = NoItem
    /\ storage_full = FALSE
    /\ BarMounted

\* stops are selected on the map
NextDrawer ==
    \/ SelectStop
    \/ LoadDemandData
    \/ PredictResolved
    \/ PredictRejected

SpecDrawer == InitDrawer /\ [][NextDrawer]_vars

\* the TypeScript page is opened; the other page is not
InitStore ==
    /\ EngineIdle
    /\ JsxIdle
    /\ AppMounted

\* the initial load, and the drawer
NextStore ==
    \/ GetStopsSettled
    \/ GetRoutesSettled
    \/ InitializeDataSettled
    \/ SetAnyDrawerHeight
    \/ ToggleDrawer
    \/ DragEnd

SpecStore == InitStore /\ [][NextStore]_vars

\* the search box of the TypeScript page
NextSuggest ==
    \/ ChangeQuery
    \/ SelectResult
    \/ FocusInput
    \/ ClickOutside

SpecSuggest == InitStore /\ [][NextSuggest]_vars

\* env.step(): one event is popped and its callbacks run
Step ==
    \/ StepArrive
    \/ StepArriveRaise
    \/ StepDepart
    \/ StepStop
    \/ StepRaise

\* one scenario
Next ==
    \/ Start
    \/ StartStarved
    \/ FailStarved
    \/ Step

Spec == Init /\ [][Next]_vars

\* one scenario with passengers that arrived at stops before the run
NextBoarding ==
    \/ \E s \in Stops(original_route) : PassengerArrive(s)
    \/ Start
    \/ StartStarved
    \/ FailStarved
    \/ Step

SpecBoarding == Init /\ [][NextBoarding]_vars

\* a scenario and its repetitions with the same inputs
NextRerun ==
    \/ Start
    \/ StartStarved
    \/ FailStarved
    \/ Step
    \/ Rerun

\* the first call of a scenario that will be called again
InitRerun ==
    /\ Init
    /\ Len(original_route) <= RerunRouteLen

SpecRerun == InitRerun /\ [][NextRerun]_vars

(* ------------------------------ claims -------------------------------- *)

\* C1: in every reachable state of a scenario, baseline or candidate, the
\* onboard passenger count of the vehicle is between 0 and its capacity.
C1_OnboardWithinCapacity ==
    /\ Len(passengers) >= 0
    /\ Len(passengers) <= capacity

\* a candidate scenario's bus that has just boarded passengers and is full
C1_BusFullAfterBoarding ==
    /\ proposed_route_change # NoProposal
    /\ pc = "dwell"
    /\ boarded_count > 0
    /\ Len(passengers) = capacity

\* C2: two runs of the same scenario with the same inputs process the same
\* events: when neither run raised at its first arrival, the first arrival of
\* the second run boards as many passengers as that of the first run; and
\* both runs return the same metrics.
C2_RerunRepeatsEvents ==
    /\ (previous >= 0 /\ observed >= 0) => observed = previous
    /\ (repeated /\ status = "Completed") => metrics = ResultMetrics

\* the result of simulating proposal p, if simulate_route_change ran for it
ResultsOf(p) ==
    {simulation_results[k] : k \in
        {k \in 1..Len(simulation_results) : simulation_results[k].proposal = p}}

\* C3: every proposal in the list of accepted proposals was simulated before
\* it was accepted and its simulated wait time is at most the baseline's
\* minus the minimum-improvement threshold.
C3_AcceptedWereSimulated ==
    \A i \in 1..Len(optimized_routes) :
        \E r \in ResultsOf(optimized_routes[i]) :
            r.passenger_wait_time_increase <= 0 - operational_constraints.threshold

\* the proposal of the k-th segment of the sorted list is in optimized_routes
Accepted(k) ==
    \E i \in 1..Len(optimized_routes) :
        optimized_routes[i] =
            propose_short_turn_loop(original_route, overloaded_segments[k])

\* C4: a candidate that has been decided is accepted if and only if its
\* scenario completed with a delta strictly above the threshold (and within
\* the constraints); every other candidate is rejected.
C4_AcceptedIffImproved ==
    opt_pc \in {"loop", "returned"} =>
        \A k \in 1..(seg_index - 1) :
            Accepted(k) <=>
                \E r \in ResultsOf(propose_short_turn_loop(original_route,
                                                         overloaded_segments[k])) :
                    /\ r.load_balancing_improvement > operational_constraints.threshold
                    /\ r.passenger_wait_time_increase
                           < operational_constraints.max_allowed_increase

\* C5: the event a step takes has the least time in the queue, among those
\* of that time it is the one inserted first, and the clock moves to its
\* time without ever decreasing.
C5_EventOrder ==
    [][(status = "Running" /\ current' # current) =>
          /\ \A j \in (1..Len(queue)) \ {current'.pos} :
                \/ queue[j].time > current'.time
                \/ queue[j].time = current'.time /\ j > current'.pos
          /\ queue[current'.pos].time = current'.time
          /\ now' = current'.time
          /\ now' >= now]_vars

\* the until event was taken while a timeout of the same time, inserted
\* later, stays in the queue
C5_TieTaken ==
    /\ status = "Completed"
    /\ current.kind = "StopSimulation"
    /\ \E j \in 1..Len(queue) : queue[j].time = current.time

\* C6: a scenario starts Initialized with clock 0; its state changes only
\* Initialized -> Running, Running -> Completed, Running -> Failed; Completed
\* and Failed are terminal; once Completed, the metrics never change and no
\* further event is processed.
C6_Lifecycle ==
    [][/\ status = "Initialized" => (now = 0 /\ current = NoEvent)
       /\ status' # status =>
            <<status, status'>> \in {<<"Initialized", "Running">>,
                                     <<"Running", "Completed">>,
                                     <<"Running", "Failed">>}
       /\ status \in {"Completed", "Failed"} => status' = status
       /\ status = "Completed" =>
            /\ metrics = ResultMetrics
            /\ metrics' = metrics
            /\ current' = current
            /\ now' = now
            /\ queue' = queue]_vars

\* a completed scenario with its metrics and an event left in the queue
C6_CompletedWithPendingEvent ==
    /\ status = "Completed"
    /\ metrics = ResultMetrics
    /\ queue # <<>>

\* C7: a scenario with a vehicle that has left Running is Completed, and it
\* completed when the clock reached the configured horizon of
\* simulation_hours (24) simulated hours.
C7_CompletedAtConfiguredHorizon ==
    (num_buses > 0 /\ status \notin {"Initialized", "Running"}) =>
        /\ status = "Completed"
        /\ now = SimulationHours * 3600

\* C8: a scenario started with no vehicle configured ends Failed and never
\* Completed, the failure is reported, and it is started once only.
C8_StarvedFails ==
    num_buses = 0 =>
        /\ status # "Completed"
        /\ metrics = NoMetrics
        /\ starts <= 1
        /\ status = "Failed" => (reported /\ starts = 1)
        /\ status = "Running" => (starts = 1 /\ queue = <<>>)

\* a starved scenario that was started and has failed
C8_StarvedFailed ==
    /\ num_buses = 0
    /\ status = "Failed"
    /\ reported

\* C9: when passengers have just boarded at a stop, no passenger who arrived
\* at that stop earlier is still waiting there.
C9_EarlierArrivalsBoardFirst ==
    (pc = "dwell" /\ boarded_count > 0) =>
        \A k \in 1..Len(waiting) :
            ~(waiting[k].origin_stop = CurrentStop /\ waiting[k].wait_start_time < now)

\* C10: no step changes the shared route; the route of a scenario's bus is
\* fixed once the scenario has started; the baseline's bus runs on the
\* unmodified route.
C10_TopologyUnchanged ==
    [][/\ original_route' = original_route
       /\ status # "Initialized" /\ status' # "Initialized" => bus_route' = bus_route
       /\ proposed_route_change' = NoProposal => bus_route' = original_route']_vars

\* a candidate was evaluated again and its scenario completed
C10_CandidateEvaluatedAgain ==
    /\ repeated
    /\ proposed_route_change # NoProposal
    /\ status = "Completed"

\* the ratios the Demand Index holds now for the stops of a segment
RatiosNow(segment) ==
    {Ratio(forecasted_demand[<<segment.route_id,
                               StopSequence(segment.route_id)[k],
                               segment.time_window>>], BusCapacity) :
        k \in PositionOf(segment.route_id, segment.seg_start_stop)
              ..PositionOf(segment.route_id, segment.seg_end_stop)}

\* C12: once a candidate has been accepted and the evaluation of the next
\* candidate can begin, the Demand Index has been updated: the severity it
\* gives to the accepted candidate's segment is below the severity the
\* segment was detected with.
C12_AcceptedReducesDemand ==
    opt_pc \in {"loop", "returned"} =>
        \A k \in 1..(seg_index - 1) :
            Accepted(k) =>
                Max(RatiosNow(overloaded_segments[k]))
                    < Severity(overloaded_segments[k])

\* C13: candidates are decided one at a time, in the order of the list, and
\* when a candidate is decided every candidate decided before it has at least
\* its severity and every candidate still undecided has at most its severity.
C13_DecidedInSeverityOrder ==
    [][(opt_pc = "loop" /\ seg_index' # seg_index) =>
          /\ seg_index' = seg_index + 1
          /\ Len(optimized_routes') <= Len(optimized_routes) + 1
          /\ overloaded_segments' = overloaded_segments
          /\ \A j \in 1..Len(overloaded_segments) :
                /\ j < seg_index =>
                      Severity(overloaded_segments[j])
                          >= Severity(overloaded_segments[seg_index])
                /\ j > seg_index =>
                      Severity(overloaded_segments[j])
                          <= Severity(overloaded_segments[seg_index])]_vars

\* all candidates were decided and the sort had changed the detector's order
C13_ReorderedAndDecided ==
    /\ opt_pc = "returned"
    /\ Len(optimized_routes) >= 2
    /\ overloaded_segments
          # identify_overloaded_segments(forecasted_demand, BusCapacity)

\* positions in simulation_results of results of the baseline scenario
BaselineRuns ==
    {k \in 1..Len(simulation_results) :
        simulation_results[k].proposal = NoProposal}

\* C14: the baseline is simulated exactly once in a session, its result is
\* there before the first candidate is decided, and it is never simulated
\* again, so every delta is taken against the same baseline metrics.
C14_BaselineOnce ==
    /\ Cardinality(BaselineRuns) <= 1
    /\ (opt_pc \in {"loop", "returned"} /\ seg_index > 1) => BaselineRuns = {1}
    /\ opt_pc = "returned" => Cardinality(BaselineRuns) = 1

\* C19: every segment the detector put out lies on a route of the topology,
\* runs from a stop to the same or a later stop of the stop sequence, and has
\* a severity of at least the overload threshold.
C19_SegmentsAreHotRuns ==
    \A i \in 1..Len(overloaded_segments) :
        LET seg == overloaded_segments[i]
        IN /\ seg.route_id \in RouteIds
           /\ seg.seg_start_stop \in Stops(StopSequence(seg.route_id))
           /\ seg.seg_end_stop \in Stops(StopSequence(seg.route_id))
           /\ PositionOf(seg.route_id, seg.seg_start_stop)
                 <= PositionOf(seg.route_id, seg.seg_end_stop)
           /\ seg.factor >= OverloadThreshold

\* the detector returned a segment of several stops and a segment whose
\* severity is exactly the threshold
C19_RunAndThresholdSegment ==
    /\ opt_pc = "identified"
    /\ \E i \in 1..Len(overloaded_segments) :
          overloaded_segments[i].seg_start_stop # overloaded_segments[i].seg_end_stop
    /\ \E i \in 1..Len(overloaded_segments) :
          overloaded_segments[i].factor = OverloadThreshold

\* the segments of route r and window w that contain position k
Covering(r, w, k) ==
    {i \in 1..Len(overloaded_segments) :
        /\ overloaded_segments[i].route_id = r
        /\ overloaded_segments[i].time_window = w
        /\ PositionOf(r, overloaded_segments[i].seg_start_stop) <= k
        /\ k <= PositionOf(r, overloaded_segments[i].seg_end_stop)}

\* predicted_riders / capacity >= threshold, for position k of route r
IsHot(r, w, k) ==
    forecasted_demand[<<r, StopSequence(r)[k], w>>] * 100
        >= OverloadThreshold * BusCapacity

RECURSIVE DrawsBefore(_)
DrawsBefore(w) ==
    IF w = 1 THEN 0 ELSE DrawsBefore(w - 1) + Len(worker_draws[w - 1])

\* C11: whatever the interleaving of the workers, candidates are decided one
\* at a time in the fixed order; and once every scenario has returned, each
\* scenario has the metrics and has had the draws of the random generator it
\* has when the scenarios run one after another, and the accepted list is
\* the same.
C11_ParallelAsSequential ==
    /\ \A i \in 1..Len(decided) : decided[i] = i
    /\ (\A w \in Workers : worker_pc[w] = "done") =>
          /\ \A w \in Workers :
                /\ worker_metrics[w] = ResultMetrics
                /\ worker_draws[w] =
                      [i \in 1..Len(worker_draws[w]) |-> DrawsBefore(w) + i]
          /\ Len(decided) = NumWorkers => decided = [i \in Workers |-> i]

\* the candidates of the session that have a rejection
RejectedCandidates == {rejections[i].candidate : i \in 1..Len(rejections)}

AcceptedCandidates == {accepted[i] : i \in 1..Len(accepted)}

C16_TimedOutScenarioRejected ==
    \A c \in 1..candidates :
        scenario_wall[c] >= ScenarioBudget =>
            /\ scenario_status[c] = "Failed"
            /\ scenario_runs[c] = 1
            /\ c \in RejectedCandidates
            /\ c \notin AcceptedCandidates

\* a scenario timed out and the session went on to its end
C16_TimedOutThenReturned ==
    /\ sess_pc = "returned"
    /\ \E c \in 1..candidates :
          /\ scenario_wall[c] >= ScenarioBudget
          /\ c < candidates

\* the session budget is used up and candidates are left
TimedOut ==
    /\ sess_pc \in {"evaluating", "returned"}
    /\ elapsed >= OptimizationTimeout
    /\ cand_index <= candidates

\* C17: once the session has timed out no candidate is evaluated or accepted
\* any more, and the report that is returned has partial = true and holds
\* exactly the proposals accepted before the timeout.
C17_TimeoutReturnsPartial ==
    /\ [](TimedOut /\ sess_pc = "returned" => partial /\ report = accepted)
    /\ [][TimedOut =>
            /\ cand_index' = cand_index
            /\ scenario_runs' = scenario_runs
            /\ accepted' = accepted
            /\ rejections' = rejections
            /\ sess_pc' \in {"evaluating", "returned"}]_vars

\* a session timed out after it had accepted a proposal
C17_PartialReportReturned ==
    /\ TimedOut
    /\ sess_pc = "returned"
    /\ accepted # <<>>
    /\ cand_index <= candidates

C22_RouteWithoutRecordsSkipped ==
    /\ [](opt_pc \in {"identified", "loop", "returned"} =>
            /\ insufficient_data =
                  {r \in RouteIds : \A key \in DOMAIN forecasted_demand : key[1] # r}
            /\ \A i \in 1..Len(overloaded_segments) :
                  overloaded_segments[i].route_id \notin insufficient_data
            /\ \A r \in RouteIds \ insufficient_data, w \in TimeWindows :
                  \A k \in 1..Len(StopSequence(r)) :
                      IsHot(r, w, k) => Covering(r, w, k) # {})
    /\ [][/\ forecasted_demand' = forecasted_demand
          /\ route_topology' = route_topology]_vars

\* the first route has no demand record and was skipped; the detector
\* returned a segment of the second route
C22_SecondRouteStillDetected ==
    /\ opt_pc = "identified"
    /\ insufficient_data = {1}
    /\ \E i \in 1..Len(overloaded_segments) : overloaded_segments[i].route_id = 2

\* C29: for every route, the result of the optimization run holds at most
\* max_short_turns short-turn loop proposals.
C29_ShortTurnsPerRouteBounded ==
    \A r \in RouteIds :
        Cardinality({i \in 1..Len(optimized_routes) :
                        optimized_routes[i].route_id = r}) <= MaxShortTurns

\* C30: a scenario with a vehicle in which no passenger ever appeared ends
\* Completed with a wait time of 0 and a vehicle utilization of 0.  On a
\* route of one stop every boarding raises (there is no later stop to choose
\* as destination), so a scenario that completed there had no passenger; the
\* only wait-time entry of the returned dictionary is
\* passenger_wait_time_increase.
C30_EmptySystemMetricsZero ==
    /\ (status = "Failed" /\ num_buses > 0 /\ Len(original_route) = 1) =>
          pc = "raised"
    /\ (/\ status = "Completed"
        /\ num_buses > 0
        /\ Len(original_route) = 1
        /\ waiting = <<>>) =>
          /\ metrics.vehicle_utilization = 0
          /\ metrics.passenger_wait_time_increase = 0

\* a pair of stops of the route that brackets the segment within the detour
\* time allowed
ValidBracket(input, entry_stop, exit_stop) ==
    LET seg == input.segment
        stops == Stops(StopSequence(seg.route_id))
    IN /\ entry_stop \in stops
       /\ exit_stop \in stops
       /\ PositionOf(seg.route_id, entry_stop) <= PositionOf(seg.route_id, seg.seg_start_stop)
       /\ PositionOf(seg.route_id, exit_stop) >= PositionOf(seg.route_id, seg.seg_end_stop)
       /\ DetourMinutes(seg.route_id, entry_stop, exit_stop, input.hop_minutes)
              <= input.max_detour_time

ValidBrackets(input) ==
    LET stops == Stops(StopSequence(input.segment.route_id))
    IN {b \in stops \X stops : ValidBracket(input, b[1], b[2])}

BracketWidth(route_id, b) == PositionOf(route_id, b[2]) - PositionOf(route_id, b[1])

\* twice the distance of the middle of a bracket from the middle of the route
MidpointDistance(route_id, b) ==
    LET d == PositionOf(route_id, b[1]) + PositionOf(route_id, b[2])
                 - (Len(StopSequence(route_id)) + 1)
    IN IF d < 0 THEN -d ELSE d

ShortTurnDone == gen_pc \in {"short_turn", "returned"}

\* C26: when no pair of stops of the route brackets the overloaded segment
\* within max_detour_time, the Short-Turn Loop Proposer returns an empty list
\* of proposals.
C26_NoValidLoopNoProposal ==
    (ShortTurnDone /\ ValidBrackets(gen_input) = {}) =>
        short_turn_proposals = <<>>

\* C27: every short-turn proposal emitted has entry and exit stops that are
\* stops of the route, brackets every stop of the overloaded segment, takes
\* at most max_detour_time, and no narrower valid bracket exists; among the
\* narrowest the one closest to the middle of the route is taken.
C27_EmittedLoopIsNarrowestValid ==
    ShortTurnDone =>
        \A i \in 1..Len(short_turn_proposals) :
            LET p == short_turn_proposals[i]
                b == <<p.loop_start_stop_id, p.loop_end_stop_id>>
            IN /\ b \in ValidBrackets(gen_input)
               /\ \A c \in ValidBrackets(gen_input) :
                      \/ BracketWidth(p.route_id, c) > BracketWidth(p.route_id, b)
                      \/ /\ BracketWidth(p.route_id, c) = BracketWidth(p.route_id, b)
                         /\ MidpointDistance(p.route_id, c) >= MidpointDistance(p.route_id, b)

\* the hard constraints a proposal of either kind has to satisfy
ShortTurnSatisfied(input, p) ==
    DetourMinutes(p.route_id, p.loop_start_stop_id, p.loop_end_stop_id,
                  input.hop_minutes) <= input.max_detour_time

HeadwaySatisfied(input, p) ==
    /\ p.new_headway >= input.min_headway
    /\ p.new_headway <= input.max_headway

\* C28: every proposal the Proposal Generator returns satisfies the hard
\* constraints: a candidate that violates one is not returned.
C28_ReturnedProposalsSatisfyConstraints ==
    gen_pc = "returned" =>
        /\ \A i \in 1..Len(short_turn_proposals) :
               ShortTurnSatisfied(gen_input, short_turn_proposals[i])
        /\ \A i \in 1..Len(headway_proposals) :
               HeadwaySatisfied(gen_input, headway_proposals[i])

\* C23: a headway the Headway Adjuster emits is current_headway / severity
\* clamped to [min_headway, max_headway], so it lies within these bounds; a
\* current headway of 10 minutes and a severity of 2.0 give 5 minutes when
\* min_headway is at most 5 minutes.
C23_HeadwayIsClampedQuotient ==
    gen_pc = "returned" =>
        /\ \A i \in 1..Len(headway_proposals) :
               LET h == headway_proposals[i].new_headway
                   q == (gen_input.current_headway * 100) \div gen_input.segment.factor
               IN /\ h >= gen_input.min_headway
                  /\ h <= gen_input.max_headway
                  /\ (q >= gen_input.min_headway /\ q <= gen_input.max_headway) => h = q
                  /\ q < gen_input.min_headway => h = gen_input.min_headway
                  /\ q > gen_input.max_headway => h = gen_input.max_headway
        /\ (/\ gen_input.current_headway = 600
            /\ gen_input.segment.factor = 200
            /\ gen_input.min_headway <= 300
            /\ headway_proposals # <<>>) => headway_proposals[1].new_headway = 300

C23_TenMinutesHalved ==
    /\ gen_pc = "returned"
    /\ gen_input.current_headway = 600
    /\ gen_input.segment.factor = 200
    /\ gen_input.min_headway = 300
    /\ Len(headway_proposals) = 1
    /\ headway_proposals[1].new_headway = 300

\* C24: the Headway Adjuster never proposes a headway longer than the current
\* one, and for a severity below 1 it proposes no change, whatever
\* min_headway and max_headway are.
C24_NeverLongerHeadway ==
    gen_pc = "returned" =>
        /\ \A i \in 1..Len(headway_proposals) :
               headway_proposals[i].new_headway <= gen_input.current_headway
        /\ gen_input.segment.factor < 100 => headway_proposals = <<>>

\* severity 0.5 and a current headway over max_headway: the clamped quotient
\* is below the current headway, and still no change is proposed
C24_NoChangeBelowOne ==
    /\ gen_pc = "returned"
    /\ gen_input.segment.factor = 50
    /\ gen_input.current_headway > gen_input.max_headway
    /\ headway_proposals = <<>>

\* C25: a headway reduction is emitted only when the additional
\* vehicle-hours it implies are under the budget; a reduction over the budget
\* gives no proposal and a recorded rejection reason.
C25_ReductionWithinBudget ==
    gen_pc = "returned" =>
        /\ headway_proposals # <<>> =>
               gen_input.extra_vehicle_hours < gen_input.vehicle_hours_budget
        /\ (/\ gen_input.segment.factor >= 100
            /\ TargetHeadway(gen_input.current_headway, gen_input.segment.factor,
                             gen_input.min_headway, gen_input.max_headway)
                   < gen_input.current_headway
            /\ gen_input.extra_vehicle_hours >= gen_input.vehicle_hours_budget) =>
               /\ headway_proposals = <<>>
               /\ gen_rejections # <<>>
               /\ \A i \in 1..Len(gen_rejections) : gen_rejections[i].reason # ""

C25_OverBudgetRejected ==
    /\ gen_pc = "returned"
    /\ gen_input.segment.factor = 200
    /\ gen_input.current_headway = 600
    /\ gen_input.extra_vehicle_hours >= gen_input.vehicle_hours_budget
    /\ headway_proposals = <<>>
    /\ Len(gen_rejections) = 1

\* events of the vehicle that are pending in the queue
VehicleEvents == {i \in 1..Len(queue) : queue[i].kind # "StopSimulation"}

\* C31: arrivals and departures of a vehicle alternate: while the scenario
\* runs the vehicle has exactly one pending event; after an arrival it is the
\* departure from that stop, after a departure the arrival at the next stop,
\* in both cases at a time not earlier than now.
C31_ArrivalsAndDeparturesAlternate ==
    (status = "Running" /\ num_buses > 0) =>
        /\ Cardinality(VehicleEvents) = 1
        /\ \A i \in VehicleEvents :
               /\ queue[i].time >= now
               /\ queue[i].kind = (IF pc = "start" THEN "Initialize" ELSE "Timeout")
        /\ pc \in {"start", "dwell", "travel"}

\* C39: boarding is well defined at every stop the bus visits, the last stop
\* of the route included: the bus process never fails in it, and every
\* passenger on board has a destination that is a stop of the route later
\* than the stop where the passenger boarded.
C39_BoardingWellDefined ==
    /\ pc # "raised"
    /\ \A i \in 1..Len(passengers) :
           \E k \in 2..Len(bus_route) : bus_route[k] = passengers[i]

\* C32: for a burst of keystrokes, each less than 300 ms after the one
\* before, at most one api.searchStops request is issued; it is issued after
\* the burst (no keystroke in the 300 ms before it) and carries the query
\* typed last.
C32_OneRequestPerBurst ==
    /\ \A i \in 1..Len(search_calls) :
           /\ search_calls[i].query = search_calls[i].value
           /\ search_calls[i].since_key >= DebounceWait
    /\ \A i, j \in 1..Len(search_calls) :
           i < j => search_calls[i].burst # search_calls[j].burst

\* C33: while the dropdown is open, selectedIndex is -1 or the (0-based)
\* index of a displayed item.
C33_SelectedIndexInRange ==
    isOpen =>
        /\ selectedIndex >= -1
        /\ selectedIndex <= Len(DisplayResults) - 1

\* recentSearches after a selection: at most five stops, pairwise distinct,
\* the stop selected last first
RecentSearchesWellFormed ==
    /\ Len(recentSearches) <= RecentLimit
    /\ \A i, j \in 1..Len(recentSearches) :
           i # j => recentSearches[i] # recentSearches[j]
    /\ recentSearches[1] = selectedStop

\* every selection puts the selected stop first and keeps the others in order
MostRecentFirst ==
    [][selectedStop' # selectedStop \/ recentSearches' # recentSearches =>
           \E result \in 1..Len(SelectableStops) :
               /\ selectedStop' = result
               /\ recentSearches' =
                      Slice(<<result>> \o Without(recentSearches, result),
                            RecentLimit)]_vars

C35_DemandDataOfSelectedStop ==
    (effect_stop = selectedStop /\ ~predict_failed) =>
        /\ predict_requests # {} => demand_loading
        /\ (predict_requests = {} /\ selectedStop # 0) =>
               /\ ~demand_loading
               /\ demandData = Prediction(selectedStop)

\* C34: after MainLayout's initial data load has finished, isConnected is
\* true only if both the stops fetch and the routes fetch succeeded.
C34_ConnectedOnlyIfBothLoaded ==
    init_pc = "done" =>
        (isConnected => (stops_request = "ok" /\ routes_request = "ok"))

C36_DisplayedResultsMatchQuery ==
    (dropdownOpen /\ Len(searchQuery) > 0) =>
        \A i \in 1..Len(DisplayedResults) :
            LET item == DisplayedResults[i]
            IN \/ Includes(ToLowerCase(item.name), ToLowerCase(searchQuery))
               \/ Includes(ToLowerCase(item.subtitle), ToLowerCase(searchQuery))

TypeOK ==
    /\ status \in {"Initialized", "Running", "Completed", "Failed"}
    /\ now \in 0..Until
    /\ Len(passengers) <= capacity

====
